---- MODULE Spec2Model ----
(***************************************************************************)
(* Model of the real-time room messaging subsystem of backend/server.py:   *)
(* the ConnectionManager registry, broadcast_to_room, the per-connection   *)
(* session loop of websocket_endpoint and the HTTP handlers that touch the *)
(* same stores (join_room, send_message_http, get_room_messages, the       *)
(* nickname and profile updates), and of the handlers of the neighbouring  *)
(* stores: register, create_room, the friends and the private messages.    *)
(*                                                                         *)
(* Every await of the code is a suspension point: an action of the model   *)
(* is the completion of one await followed by the synchronous code up to   *)
(* the next await.                                                         *)
(***************************************************************************)
EXTENDS Integers, Sequences, FiniteSets, TLC

\* ------------------------------------------------------------------ bounds
\* total number of frames the sessions receive in one behaviour
MaxFrames == 2
\* number of times the clock advances in one behaviour
MaxTicks == 2
\* number of nickname change requests stored in one behaviour
MaxNicknameRequests == 1
\* number of requests one slot of task serves in one behaviour
MaxCalls == 2

\* ------------------------------------------------------------ the universe
\* WebSocket objects (one per accepted socket)
Conns == {"w1", "w2", "w3"}
\* room ids that can appear in /ws/{room_id}; "r9" is not in db.rooms
RoomIds == {"r1", "r2", "r9"}
\* user ids that a token's "sub" can carry; "u3" is not in db.users
UserIds == {"u1", "u2", "u3"}

None == "None"

\* tokens of an inbound frame: absent/empty, undecodable, decodable without
\* "sub", decodable with a "sub"
Tokens ==
  {[kind |-> "none", sub |-> None], [kind |-> "bad", sub |-> None],
   [kind |-> "nosub", sub |-> None]}
  \cup {[kind |-> "valid", sub |-> u] : u \in UserIds}

\* inbound text frames: text that json.loads rejects, or an object with an
\* optional "token" and an optional "content"
Frames ==
  {[json |-> FALSE, token |-> [kind |-> "none", sub |-> None], content |-> None]}
  \cup {[json |-> TRUE, token |-> t, content |-> "hi"] : t \in Tokens}
  \cup {[json |-> TRUE, token |-> [kind |-> "valid", sub |-> "u1"], content |-> None]}

\* the rooms each socket may be opened on
RoomChoice(c) ==
  IF c \in {"w1", "w2"} THEN {"r1"} ELSE {"r2", "r9"}

Range(s) == {s[i] : i \in 1..Len(s)}

\* ------------------------------------------------------------------- state
VARIABLES
  active_connections, \* ConnectionManager.active_connections: room id -> list
  users,              \* db.users: user id -> document
  rooms,              \* db.rooms: room id -> document
  messages,           \* db.messages in insertion order
  pc,                 \* position of the session of each WebSocket
  connRoom,           \* room_id path parameter of each session
  alive,              \* the peer's side of the socket is still open
  local,              \* local variables of the session (current frame)
  outbox,             \* frames delivered to the peer of each WebSocket
  bc,                 \* the running broadcast_to_room of each session
  frameNo,            \* number of frames received so far, over all sessions
  raised,             \* exception raised by the last direct manager call
  http,               \* the HTTP requests in progress and their responses
  now,                \* the clock datetime.utcnow() reads, as the store keeps it
  nickname_requests,  \* db.nickname_requests in insertion order
  tieOrder,           \* order in which a sorted cursor yields equal sort keys
  friends,            \* db.friends in insertion order
  private_messages,   \* db.private_messages in insertion order
  task,               \* the other HTTP requests in progress and their responses
  send_failed         \* WebSockets for which a send_text of a broadcast raised

\* the state written by the HTTP handlers and their environment only
httpVars == <<http, now, nickname_requests, tieOrder>>

\* the state of the friends, private message, register and room handlers
socialVars == <<friends, private_messages, task>>

vars == <<active_connections, users, rooms, messages, pc, connRoom, alive,
          local, outbox, bc, frameNo, raised, http, now, nickname_requests,
          tieOrder, friends, private_messages, task, send_failed>>

\* --------------------------------------------------------- ConnectionManager
\* list.remove(x): removes the first occurrence of x
RECURSIVE ListRemove(_, _)
ListRemove(L, x) ==
  IF L = <<>> THEN <<>>
  ELSE IF Head(L) = x THEN Tail(L)
  ELSE <<Head(L)>> \o ListRemove(Tail(L), x)

\* connect appending the socket to the room's list twice
connectTwice(ac, websocket, room_id) ==
  IF room_id \notin DOMAIN ac
    THEN [r \in DOMAIN ac \cup {room_id} |->
            IF r = room_id THEN <<websocket, websocket>> ELSE ac[r]]
    ELSE [ac EXCEPT ![room_id] = Append(Append(@, websocket), websocket)]

\* registry update of ConnectionManager.connect, after websocket.accept()
connect(ac, websocket, room_id) ==
  IF room_id \notin DOMAIN ac
    THEN [r \in DOMAIN ac \cup {room_id} |->
            IF r = room_id THEN <<websocket>> ELSE ac[r]]
    ELSE [ac EXCEPT ![room_id] = Append(@, websocket)]

\* disconnect without `del self.active_connections[room_id]`
disconnectKeepEmpty(ac, websocket, room_id) ==
  IF room_id \in DOMAIN ac
    THEN IF websocket \notin Range(ac[room_id])
           THEN [ac |-> ac, raised |-> "ValueError"]
           ELSE [ac |-> [ac EXCEPT ![room_id] = ListRemove(@, websocket)],
                 raised |-> None]
    ELSE [ac |-> ac, raised |-> None]

\* disconnect testing `if not self.active_connections[room_id]` before the
\* remove instead of after it
disconnectTestBeforeRemove(ac, websocket, room_id) ==
  IF room_id \in DOMAIN ac
    THEN IF websocket \notin Range(ac[room_id])
           THEN [ac |-> ac, raised |-> "ValueError"]
           ELSE IF ac[room_id] = <<>>
                  THEN [ac |-> [r \in DOMAIN ac \ {room_id} |-> ac[r]],
                        raised |-> None]
                  ELSE [ac |-> [ac EXCEPT ![room_id] = ListRemove(@, websocket)],
                        raised |-> None]
    ELSE [ac |-> ac, raised |-> None]

\* ConnectionManager.disconnect: the new registry and the exception raised
disconnect(ac, websocket, room_id) ==
  IF room_id \in DOMAIN ac
    THEN IF websocket \notin Range(ac[room_id])
           THEN [ac |-> ac, raised |-> "ValueError"]
           ELSE LET rest == ListRemove(ac[room_id], websocket) IN
                IF rest = <<>>
                  THEN [ac |-> [r \in DOMAIN ac \ {room_id} |-> ac[r]],
                        raised |-> None]
                  ELSE [ac |-> [ac EXCEPT ![room_id] = rest], raised |-> None]
    ELSE [ac |-> ac, raised |-> None]

\* broadcast_to_room iterating the connections of every room
ConnectionsForAnyRoom(ac, room_id) ==
  (IF "r1" \in DOMAIN ac THEN ac["r1"] ELSE <<>>)
  \o (IF "r2" \in DOMAIN ac THEN ac["r2"] ELSE <<>>)
  \o (IF "r9" \in DOMAIN ac THEN ac["r9"] ELSE <<>>)

\* the list broadcast_to_room iterates for room_id: the live list object of
\* the registry, <<>> when the room has no entry
ConnectionsFor(ac, room_id) ==
  IF room_id \in DOMAIN ac THEN ac[room_id] ELSE <<>>

\* ------------------------------------------------------------------ frames
ErrorFrame(text) ==
  [type |-> "error", error |-> text, id |-> 0, content |-> None,
   room_id |-> None, user_id |-> None, user_name |-> None]

\* message_doc of websocket_endpoint; via, conn and frame record which
\* transport, which socket and which inbound frame created the document
MessageDoc(id, content, room_id, user_id, user_name, user_avatar, created_at, via, conn, frame) ==
  [id |-> id, content |-> content, room_id |-> room_id, user_id |-> user_id,
   user_name |-> user_name, user_avatar |-> user_avatar,
   created_at |-> created_at, via |-> via, conn |-> conn, frame |-> frame]

\* broadcast_data of websocket_endpoint
BroadcastData(doc) ==
  [type |-> "message", error |-> None, id |-> doc.id, content |-> doc.content,
   room_id |-> doc.room_id, user_id |-> doc.user_id, user_name |-> doc.user_name]

\* no broadcast_data: no broadcast in progress
NoData == [type |-> None, error |-> None, id |-> 0, content |-> None,
           room_id |-> None, user_id |-> None, user_name |-> None]

\* an insert_one that returns without having stored the document
InsertDropped(msgs, doc) == msgs

\* db.messages.insert_one(message_doc)
InsertOne(msgs, doc) == Append(msgs, doc)

NoToken == [kind |-> "none", sub |-> None]

NoLocal == [frame |-> 0, token |-> NoToken, content |-> None, user_id |-> None,
            user_name |-> None, user_avatar |-> None, created_at |-> 0,
            err |-> None]

\* a broadcast_to_room in progress: the connection whose send is awaited, the
\* number of list elements the for loop has taken, the message and its
\* broadcast_data; and, for the properties, the connections registered for
\* the room since the call (stable), whether the room's list changed since
\* the call (changed), whether a send of the call failed (failed), the
\* connections that had been unregistered when the call started
\* (closedAtStart), the connections whose send the call has awaited (tried)
\* and those for which a send had raised before the call (failedBefore)
NoBc == [target |-> None, idx |-> 0, msg |-> 0, data |-> NoData, stable |-> {}, changed |-> FALSE,
         failed |-> FALSE, closedAtStart |-> {}, tried |-> {}, failedBefore |-> {}]

\* outcome of the last direct call of ConnectionManager.disconnect
NoCall == [ws |-> None, exc |-> None, tick |-> 0]

\* HTTP requests that can be in progress at the same time
Reqs == {"h1", "h2"}

\* current_user before get_current_user has returned
NoUser == [id |-> None, nickname |-> None, avatar_url |-> None]

\* no Message in a response
NoMessage == [id |-> 0, content |-> None, room_id |-> None, user_id |-> None,
              user_name |-> None, user_avatar |-> None, created_at |-> 0]

\* an HTTP request on /rooms/{room_id}/messages: the handler (op), its
\* position, its inputs (credentials, room_id, content), its local variables
\* (current_user, created_at of message_doc) and its response (status,
\* message or list); at is the number of stored messages when the query of
\* get_room_messages ran
NoRequest == [op |-> None, pc |-> "idle", credentials |-> NoToken,
              room_id |-> None, content |-> None, current_user |-> NoUser,
              created_at |-> 0, status |-> 0, message |-> NoMessage,
              list |-> <<>>, at |-> 0]

\* ------------------------------------------------- steps of websocket_endpoint
\* the session without the `if not token` check
\* the requests of the friends, private message, register and room handlers
Tasks == {"t1", "t2"}

\* a request slot before the request: no handler running, no response
NoTask == [op |-> None, pc |-> "idle", current_user |-> None,
           friend_user_id |-> None, user_id |-> None, recipient_id |-> None,
           room_id |-> None, is_private |-> FALSE, email |-> None, status |-> 0,
           deleted_count |-> 0, created_at |-> 0, messages |-> <<>>, n |-> 0]

TokenNeverMissing(token) == FALSE

\* `if not token`: the frame has no "token" or an empty one
TokenMissing(token) == token.kind = "none"

\* jwt.decode(token, SECRET_KEY, algorithms=[ALGORITHM]): the payload, or
\* JWTError for a token that does not verify
JwtDecode(token) ==
  IF token.kind = "bad" THEN [JWTError |-> TRUE, sub |-> None]
  ELSE [JWTError |-> FALSE, sub |-> token.sub]

\* from receive_text() to the next await: json.loads, the token checks
AfterReceive(frame) ==
  IF ~frame.json THEN [pc |-> "crashed", err |-> None, user_id |-> None]
  ELSE IF TokenMissing(frame.token)
    THEN [pc |-> "send_error", err |-> "No token provided", user_id |-> None]
  ELSE IF JwtDecode(frame.token).JWTError
    THEN [pc |-> "send_error", err |-> "Invalid token", user_id |-> None]
  ELSE IF JwtDecode(frame.token).sub = None
    THEN [pc |-> "send_error", err |-> "Invalid token", user_id |-> None]
  ELSE [pc |-> "find_user", err |-> None, user_id |-> JwtDecode(frame.token).sub]

\* find_one({"id": id}) of a collection: the document, or None (NoDoc, whose
\* fields read as None)
NoDoc == [nickname |-> None, avatar_url |-> None, is_private |-> FALSE, members |-> <<>>]
FindOne(coll, id) == IF id \in DOMAIN coll THEN coll[id] ELSE NoDoc

\* the session without the `if not user` check
UserNeverMissing(usrs, user_id) == FALSE

\* `if not user` after db.users.find_one({"id": user_id})
UserMissing(usrs, user_id) == user_id \notin DOMAIN usrs

\* `if not room` after db.rooms.find_one({"id": room_id})
RoomMissing(rms, room_id) == room_id \notin DOMAIN rms

\* the membership test inverted
AccessDeniedToMembers(room, user_id) == room.is_private /\ user_id \in Range(room.members)

\* room["is_private"] and user_id not in room.get("members", [])
AccessDenied(room, user_id) == room.is_private /\ user_id \notin Range(room.members)

\* from db.rooms.find_one to the next await: the room checks and the
\* construction of message_doc; message_data["content"] raises KeyError for
\* a frame without "content", subscripting a None user or room raises
\* TypeError, and neither is caught by the handler
AfterFindRoom(rms, room_id, loc) ==
  IF RoomMissing(rms, room_id) THEN [pc |-> "send_error", err |-> "Room not found"]
  ELSE IF AccessDenied(FindOne(rms, room_id), loc.user_id)
    THEN [pc |-> "send_error", err |-> "Access denied"]
  ELSE IF loc.content = None \/ loc.user_name = None \/ room_id \notin DOMAIN rms
    THEN [pc |-> "crashed", err |-> None]
  ELSE [pc |-> "insert", err |-> None]

\* broadcast_to_room started without being awaited: the loop goes on to
\* receive_text
BroadcastNotAwaited == "receive"

\* position of a session that awaits manager.broadcast_to_room
AwaitBroadcast == "broadcast"

\* server side of a socket still served by its session
Open(c) == pc[c] \notin {"idle", "closed", "crashed"}

\* the handler ends with an exception other than WebSocketDisconnect: nothing
\* unregisters the socket, the server closes the transport
EndWithError(c) ==
  /\ pc' = [pc EXCEPT ![c] = "crashed"]
  /\ alive' = [alive EXCEPT ![c] = FALSE]
  /\ local' = [local EXCEPT ![c] = NoLocal]
  /\ UNCHANGED active_connections

\* except WebSocketDisconnect: manager.disconnect(websocket, room_id)
EndWithDisconnect(c) ==
  /\ pc' = [pc EXCEPT ![c] = "closed"]
  /\ active_connections' = disconnect(active_connections, c, connRoom[c]).ac
  /\ bc' = [s \in Conns |->
             IF bc[s].target # None /\ connRoom[s] = connRoom[c]
               THEN [bc[s] EXCEPT !.stable = @ \ {c}, !.changed = TRUE]
               ELSE bc[s]]
  /\ local' = [local EXCEPT ![c] = NoLocal]
  /\ UNCHANGED alive

\* await manager.connect(websocket, room_id)
Connect(c, room_id) ==
  /\ UNCHANGED socialVars
  /\ UNCHANGED send_failed
  /\ UNCHANGED httpVars
  /\ pc[c] = "idle"
  /\ pc' = [pc EXCEPT ![c] = "receive"]
  /\ connRoom' = [connRoom EXCEPT ![c] = room_id]
  /\ alive' = [alive EXCEPT ![c] = TRUE]
  /\ active_connections' = connect(active_connections, c, room_id)
  /\ bc' = [s \in Conns |->
             IF bc[s].target # None /\ connRoom[s] = room_id
               THEN [bc[s] EXCEPT !.changed = TRUE] ELSE bc[s]]
  /\ UNCHANGED <<users, rooms, messages, local, outbox, frameNo, raised>>

\* the client closes its side of the socket, at any point of the session
PeerClose(c) ==
  /\ UNCHANGED socialVars
  /\ UNCHANGED send_failed
  /\ UNCHANGED httpVars
  /\ Open(c) /\ alive[c]
  /\ alive' = [alive EXCEPT ![c] = FALSE]
  /\ UNCHANGED <<active_connections, users, rooms, messages, pc, connRoom,
                 local, outbox, bc, frameNo, raised>>

\* data = await websocket.receive_text() returns a frame, then the
\* synchronous code up to the first await of the frame
Receive(c, frame) ==
  /\ UNCHANGED socialVars
  /\ UNCHANGED send_failed
  /\ UNCHANGED httpVars
  /\ pc[c] = "receive" /\ alive[c]
  /\ frameNo < MaxFrames
  /\ frameNo' = frameNo + 1
  /\ LET a == AfterReceive(frame) IN
       IF a.pc = "crashed"
         THEN EndWithError(c)
         ELSE /\ pc' = [pc EXCEPT ![c] = a.pc]
              /\ local' = [local EXCEPT ![c] =
                   [NoLocal EXCEPT !.frame = frameNo + 1, !.token = frame.token,
                                   !.content = frame.content,
                                   !.user_id = a.user_id, !.err = a.err]]
              /\ UNCHANGED <<active_connections, alive>>
  /\ UNCHANGED <<users, rooms, messages, connRoom, outbox, bc, raised>>

\* await websocket.receive_text() raises WebSocketDisconnect
ReceiveDisconnect(c) ==
  /\ UNCHANGED socialVars
  /\ UNCHANGED send_failed
  /\ UNCHANGED httpVars
  /\ pc[c] = "receive" /\ ~alive[c]
  /\ EndWithDisconnect(c)
  /\ UNCHANGED <<users, rooms, messages, connRoom, outbox, frameNo, raised>>

\* await websocket.send_text(json.dumps({"error": ...})); continue
SendError(c) ==
  /\ UNCHANGED socialVars
  /\ UNCHANGED send_failed
  /\ UNCHANGED httpVars
  /\ pc[c] = "send_error" /\ alive[c]
  /\ outbox' = [outbox EXCEPT ![c] = Append(@, ErrorFrame(local[c].err))]
  /\ pc' = [pc EXCEPT ![c] = "receive"]
  /\ local' = [local EXCEPT ![c] = NoLocal]
  /\ UNCHANGED <<active_connections, users, rooms, messages, connRoom, alive,
                 bc, frameNo, raised>>

\* the send of the error frame finds the peer gone and raises
\* WebSocketDisconnect: the handler unregisters the socket
SendErrorDisconnect(c) ==
  /\ UNCHANGED socialVars
  /\ UNCHANGED send_failed
  /\ UNCHANGED httpVars
  /\ pc[c] = "send_error" /\ ~alive[c]
  /\ EndWithDisconnect(c)
  /\ UNCHANGED <<users, rooms, messages, connRoom, outbox, frameNo, raised>>

\* the send of the error frame finds the peer gone and raises another
\* exception (the server's connection-closed error)
SendErrorFail(c) ==
  /\ UNCHANGED socialVars
  /\ UNCHANGED send_failed
  /\ UNCHANGED httpVars
  /\ pc[c] = "send_error" /\ ~alive[c]
  /\ EndWithError(c)
  /\ UNCHANGED <<users, rooms, messages, connRoom, outbox, bc, frameNo, raised>>

\* user = await db.users.find_one({"id": user_id})
FindUser(c) ==
  /\ UNCHANGED socialVars
  /\ UNCHANGED send_failed
  /\ UNCHANGED httpVars
  /\ pc[c] = "find_user"
  /\ IF UserMissing(users, local[c].user_id)
       THEN /\ pc' = [pc EXCEPT ![c] = "send_error"]
            /\ local' = [local EXCEPT ![c].err = "User not found"]
       ELSE /\ pc' = [pc EXCEPT ![c] = "find_room"]
            /\ local' = [local EXCEPT
                 ![c].user_name = FindOne(users, local[c].user_id).nickname,
                 ![c].user_avatar = FindOne(users, local[c].user_id).avatar_url]
  /\ UNCHANGED <<active_connections, users, rooms, messages, connRoom, alive,
                 outbox, bc, frameNo, raised>>

\* room = await db.rooms.find_one({"id": room_id})
FindRoom(c) ==
  /\ UNCHANGED socialVars
  /\ UNCHANGED send_failed
  /\ UNCHANGED httpVars
  /\ pc[c] = "find_room"
  /\ LET a == AfterFindRoom(rooms, connRoom[c], local[c]) IN
       IF a.pc = "crashed"
         THEN EndWithError(c)
         ELSE /\ pc' = [pc EXCEPT ![c] = a.pc]
              /\ local' = [local EXCEPT ![c].err = a.err,
                                        ![c].created_at =
                                          IF a.pc = "insert" THEN now ELSE @]
              /\ UNCHANGED <<active_connections, alive>>
  /\ UNCHANGED <<users, rooms, messages, connRoom, outbox, bc, frameNo, raised>>

\* an awaited database call of the session raises (store unavailable)
DbFail(c) ==
  /\ UNCHANGED socialVars
  /\ UNCHANGED send_failed
  /\ UNCHANGED httpVars
  /\ pc[c] \in {"find_user", "find_room", "insert"}
  /\ EndWithError(c)
  /\ UNCHANGED <<users, rooms, messages, connRoom, outbox, bc, frameNo, raised>>

\* await db.messages.insert_one(message_doc), then broadcast_to_room up to
\* its first await connection.send_text
InsertMessage(c) ==
  /\ UNCHANGED socialVars
  /\ UNCHANGED send_failed
  /\ UNCHANGED httpVars
  /\ pc[c] = "insert"
  /\ LET doc == MessageDoc(Len(messages) + 1, local[c].content, connRoom[c],
                           local[c].user_id, local[c].user_name,
                           local[c].user_avatar, local[c].created_at,
                           "ws", c, local[c].frame)
         L == ConnectionsFor(active_connections, connRoom[c])
     IN /\ messages' = InsertOne(messages, doc)
        /\ IF L = <<>>
             THEN /\ pc' = [pc EXCEPT ![c] = "receive"]
                  /\ UNCHANGED bc
             ELSE /\ pc' = [pc EXCEPT ![c] = AwaitBroadcast]
                  /\ bc' = [bc EXCEPT ![c] =
                       [target |-> L[1], idx |-> 1, msg |-> doc.id,
                        data |-> BroadcastData(doc),
                        stable |-> Range(L), changed |-> FALSE, failed |-> FALSE,
                        closedAtStart |-> {x \in Conns : pc[x] = "closed"},
                        tried |-> {}, failedBefore |-> send_failed]]
  /\ local' = [local EXCEPT ![c] = NoLocal]
  /\ UNCHANGED <<active_connections, users, rooms, connRoom, alive, outbox,
                 frameNo, raised>>

\* one await connection.send_text(message_str) of broadcast_to_room completes
\* (delivered, or raised and swallowed by the bare except), then the for loop
\* takes the next element of the list it iterates
BroadcastSend(s) ==
  /\ UNCHANGED socialVars
  /\ UNCHANGED httpVars
  /\ pc[s] = AwaitBroadcast /\ bc[s].target # None
  /\ LET t == bc[s].target
         L == ConnectionsFor(active_connections, connRoom[s])
     IN /\ outbox' = IF alive[t]
                       THEN [outbox EXCEPT ![t] = Append(@, bc[s].data)]
                       ELSE outbox
        /\ send_failed' = IF alive[t] THEN send_failed ELSE send_failed \cup {t}
        /\ IF bc[s].idx < Len(L)
             THEN /\ bc' = [bc EXCEPT ![s].target = L[bc[s].idx + 1],
                                      ![s].idx = @ + 1,
                                      ![s].failed = @ \/ ~alive[t],
                                      ![s].tried = @ \cup {t}]
                  /\ UNCHANGED pc
             ELSE /\ bc' = [bc EXCEPT ![s] = NoBc]
                  /\ pc' = [pc EXCEPT ![s] = "receive"]
  /\ UNCHANGED <<active_connections, users, rooms, messages, connRoom, alive,
                 local, frameNo, raised>>

\* ------------------------------------------------------------ HTTP handlers
\* $push in the place of $addToSet
Push(members, id) == Append(members, id)

\* {"$addToSet": {"members": id}}: appends id unless the list holds it
AddToSet(members, id) ==
  IF id \in Range(members) THEN members ELSE Append(members, id)

\* POST /rooms/{room_id}/join by an authenticated user: 404 for a missing
\* room, else $addToSet of the caller to the room's members
JoinRoom(u, room_id) ==
  /\ UNCHANGED socialVars
  /\ UNCHANGED send_failed
  /\ UNCHANGED httpVars
  /\ u \in DOMAIN users
  /\ ~RoomMissing(rooms, room_id)
  /\ u \notin Range(rooms[room_id].members)
  /\ rooms' = [rooms EXCEPT ![room_id].members = AddToSet(@, u)]
  /\ UNCHANGED <<active_connections, users, messages, pc, connRoom, alive,
                 local, outbox, bc, frameNo, raised>>

\* ------------------------------------------------------------ room history
\* .limit(50).to_list(50) of get_room_messages
PageSize == 50

\* a sorted cursor yields documents with equal sort keys in an order the
\* store fixes: here the insertion order or its reverse
TieOrders == {"natural", "reversed"}

\* db.messages.find({"room_id": room_id}): the positions of the documents,
\* in the order of the store
FindMessages(msgs, room_id) ==
  LET InRoom(i) == msgs[i].room_id = room_id
  IN SelectSeq([i \in 1..Len(msgs) |-> i], InRoom)

\* .sort("created_at", -1): the document at i comes before the one at j
Before(msgs, tie, i, j) ==
  \/ msgs[i].created_at > msgs[j].created_at
  \/ /\ msgs[i].created_at = msgs[j].created_at
     /\ IF tie = "natural" THEN i < j ELSE i > j

\* find(...).sort("created_at", -1).limit(50).to_list(50): the positions of
\* the documents of the cursor, newest first
SortLimit(msgs, room_id, tie) ==
  LET After(i, j) == Before(msgs, tie, j, i)
      oldestFirst == SortSeq(FindMessages(msgs, room_id), After)
      n == Len(oldestFirst)
      cursor == [k \in 1..n |-> oldestFirst[n + 1 - k]]
  IN SubSeq(cursor, 1, IF n < PageSize THEN n ELSE PageSize)

\* get_room_messages without messages.reverse()
NotReversed(s) == s

\* list.reverse()
Reverse(s) == [k \in 1..Len(s) |-> s[Len(s) + 1 - k]]

\* the Message model: the fields of a room message in a response
Message(id, content, room_id, user_id, user_name, user_avatar, created_at) ==
  [id |-> id, content |-> content, room_id |-> room_id, user_id |-> user_id,
   user_name |-> user_name, user_avatar |-> user_avatar,
   created_at |-> created_at]

\* msg.get("user_name") or "Unknown User"
UserNameOr(user_name) ==
  IF user_name = None \/ user_name = "" THEN "Unknown User" ELSE user_name

\* message_list of get_room_messages
MessageList(msgs, room_id, tie) ==
  LET L == Reverse(SortLimit(msgs, room_id, tie)) IN
  [k \in 1..Len(L) |->
     Message(msgs[L[k]].id, msgs[L[k]].content, msgs[L[k]].room_id,
             msgs[L[k]].user_id, UserNameOr(msgs[L[k]].user_name),
             msgs[L[k]].user_avatar, msgs[L[k]].created_at)]

\* ----------------------------------------- /rooms/{room_id}/messages, HTTP
\* the bearer tokens of the requests: one that does not verify, and the
\* tokens issued to the users
HttpCredentials ==
  {[kind |-> "bad", sub |-> None]} \cup {[kind |-> "valid", sub |-> u] : u \in UserIds}

\* get_current_user up to its await: jwt.decode raises JWTError, or the
\* payload has no "sub" (401)
CredentialsRejected(credentials) ==
  JwtDecode(credentials).JWTError \/ JwtDecode(credentials).sub = None

\* User(**user) of get_current_user: a document without "nickname" gives
\* nickname None
CurrentUser(usrs, user_id) ==
  [id |-> user_id, nickname |-> FindOne(usrs, user_id).nickname,
   avatar_url |-> FindOne(usrs, user_id).avatar_url]

\* message_doc of send_message_http
HttpMessageDoc(id, content, room_id, current_user, created_at) ==
  [id |-> id, content |-> content, room_id |-> room_id,
   user_id |-> current_user.id, user_name |-> current_user.nickname,
   user_avatar |-> current_user.avatar_url, created_at |-> created_at,
   via |-> "http", conn |-> None, frame |-> 0]

\* Message(...) raises ValidationError: user_name is a required str
MessageInvalid(user_name) == user_name = None

\* send_message_http passing its message to manager.broadcast_to_room
HttpBroadcastToRoom(ac, room_id) == Range(ConnectionsFor(ac, room_id))

\* the connections send_message_http sends a frame to: the handler has no
\* call of manager
HttpBroadcast(ac, room_id) == {}

\* a request arrives and get_current_user runs up to db.users.find_one
HttpRequest(h, op, credentials, room_id, content) ==
  /\ UNCHANGED socialVars
  /\ UNCHANGED send_failed
  /\ http[h].pc = "idle"
  /\ http' = [http EXCEPT ![h] =
       [NoRequest EXCEPT !.op = op, !.credentials = credentials,
                         !.room_id = room_id, !.content = content,
                         !.pc = IF CredentialsRejected(credentials)
                                  THEN "done" ELSE "find_user",
                         !.status = IF CredentialsRejected(credentials)
                                      THEN 401 ELSE 0]]
  /\ UNCHANGED <<active_connections, users, rooms, messages, pc, connRoom,
                 alive, local, outbox, bc, frameNo, raised, now,
                 nickname_requests, tieOrder>>

\* user = await db.users.find_one({"id": user_id}) of get_current_user, then
\* the handler up to room = await db.rooms.find_one
HttpFindUser(h) ==
  /\ UNCHANGED socialVars
  /\ UNCHANGED send_failed
  /\ http[h].pc = "find_user"
  /\ http' = [http EXCEPT ![h] =
       IF UserMissing(users, JwtDecode(http[h].credentials).sub)
         THEN [@ EXCEPT !.pc = "done", !.status = 401]
         ELSE [@ EXCEPT !.pc = "find_room",
                        !.current_user =
                          CurrentUser(users, JwtDecode(http[h].credentials).sub)]]
  /\ UNCHANGED <<active_connections, users, rooms, messages, pc, connRoom,
                 alive, local, outbox, bc, frameNo, raised, now,
                 nickname_requests, tieOrder>>

\* room = await db.rooms.find_one({"id": room_id}), the two checks, and the
\* handler up to its next await: insert_one with the message_doc just built
\* (send_message_http) or the find of get_room_messages
HttpFindRoom(h) ==
  /\ UNCHANGED socialVars
  /\ UNCHANGED send_failed
  /\ http[h].pc = "find_room"
  /\ http' = [http EXCEPT ![h] =
       IF RoomMissing(rooms, http[h].room_id)
         THEN [@ EXCEPT !.pc = "done", !.status = 404]
       ELSE IF AccessDenied(FindOne(rooms, http[h].room_id), http[h].current_user.id)
         THEN [@ EXCEPT !.pc = "done", !.status = 403]
       ELSE IF http[h].op = "send"
         THEN [@ EXCEPT !.pc = "insert", !.created_at = now]
       ELSE [@ EXCEPT !.pc = "find_messages"]]
  /\ UNCHANGED <<active_connections, users, rooms, messages, pc, connRoom,
                 alive, local, outbox, bc, frameNo, raised, now,
                 nickname_requests, tieOrder>>

\* await db.messages.insert_one(message_doc); return Message(...)
SendMessageHttp(h) ==
  /\ UNCHANGED socialVars
  /\ UNCHANGED send_failed
  /\ http[h].pc = "insert"
  /\ LET doc == HttpMessageDoc(Len(messages) + 1, http[h].content,
                               http[h].room_id, http[h].current_user,
                               http[h].created_at)
     IN /\ messages' = InsertOne(messages, doc)
        /\ outbox' = [c \in Conns |->
             IF c \in HttpBroadcast(active_connections, http[h].room_id) /\ alive[c]
               THEN Append(outbox[c], BroadcastData(doc)) ELSE outbox[c]]
        /\ http' = [http EXCEPT ![h] =
             IF MessageInvalid(http[h].current_user.nickname)
               THEN [@ EXCEPT !.pc = "done", !.status = 500]
               ELSE [@ EXCEPT !.pc = "done", !.status = 200,
                              !.message =
                                Message(doc.id, http[h].content, http[h].room_id,
                                        http[h].current_user.id,
                                        http[h].current_user.nickname,
                                        http[h].current_user.avatar_url,
                                        doc.created_at)]]
  /\ UNCHANGED <<active_connections, users, rooms, pc, connRoom, alive, local,
                 bc, frameNo, raised, now, nickname_requests, tieOrder>>

\* messages = await db.messages.find(...).sort(...).limit(50).to_list(50),
\* messages.reverse() and the response
GetRoomMessages(h) ==
  /\ UNCHANGED socialVars
  /\ UNCHANGED send_failed
  /\ http[h].pc = "find_messages"
  /\ http' = [http EXCEPT ![h] =
       [@ EXCEPT !.pc = "done", !.status = 200, !.at = Len(messages),
                 !.list = MessageList(messages, http[h].room_id, tieOrder)]]
  /\ UNCHANGED <<active_connections, users, rooms, messages, pc, connRoom,
                 alive, local, outbox, bc, frameNo, raised, now,
                 nickname_requests, tieOrder>>

\* the clock moves on by one unit of the stored precision
Tick ==
  /\ UNCHANGED socialVars
  /\ UNCHANGED send_failed
  /\ now < MaxTicks
  /\ now' = now + 1
  /\ UNCHANGED <<active_connections, users, rooms, messages, pc, connRoom,
                 alive, local, outbox, bc, frameNo, raised, http,
                 nickname_requests, tieOrder>>

\* ------------------------------------------------- nickname and profile
\* new_nickname of a NicknameChangeRequest: any str, the empty one included
NewNicknames == {"al", ""}

\* avatar_url of a UserUpdate
AvatarUrls == {"a.png"}

\* POST /auth/nickname-request by user u: 400 when another user has the
\* nickname or u has a pending request, else a pending request is stored
RequestNicknameChange(u, new_nickname) ==
  /\ UNCHANGED socialVars
  /\ UNCHANGED send_failed
  /\ u \in DOMAIN users
  /\ Len(nickname_requests) < MaxNicknameRequests
  /\ ~\E v \in DOMAIN users : v # u /\ users[v].nickname = new_nickname
  /\ ~\E i \in 1..Len(nickname_requests) :
        nickname_requests[i].user_id = u /\ nickname_requests[i].status = "pending"
  /\ nickname_requests' = Append(nickname_requests,
       [user_id |-> u, new_nickname |-> new_nickname, status |-> "pending"])
  /\ UNCHANGED <<active_connections, users, rooms, messages, pc, connRoom,
                 alive, local, outbox, bc, frameNo, raised, http, now, tieOrder>>

\* approve_nickname_request rewriting user_name in the stored messages of
\* the user as well
ApproveRewritesMessages(usrs, msgs, user_id, new_nickname) ==
  [users |-> [usrs EXCEPT ![user_id].nickname = new_nickname],
   messages |-> [i \in 1..Len(msgs) |->
                   IF msgs[i].user_id = user_id
                     THEN [msgs[i] EXCEPT !.user_name = new_nickname]
                     ELSE msgs[i]]]

\* the stores after db.users.update_one of approve_nickname_request: $set of
\* "nickname" in the user's document; db.messages is not written
ApproveUpdate(usrs, msgs, user_id, new_nickname) ==
  [users |-> [usrs EXCEPT ![user_id].nickname = new_nickname],
   messages |-> msgs]

\* POST /admin/nickname-requests/{request_id}/approve for a pending request
\* (404 for an unknown id, 400 for a processed one)
ApproveNicknameRequest(i) ==
  /\ UNCHANGED socialVars
  /\ UNCHANGED send_failed
  /\ i \in 1..Len(nickname_requests)
  /\ nickname_requests[i].status = "pending"
  /\ LET w == ApproveUpdate(users, messages, nickname_requests[i].user_id,
                            nickname_requests[i].new_nickname)
     IN users' = w.users /\ messages' = w.messages
  /\ nickname_requests' = [nickname_requests EXCEPT ![i].status = "approved"]
  /\ UNCHANGED <<active_connections, rooms, pc, connRoom, alive, local,
                 outbox, bc, frameNo, raised, http, now, tieOrder>>

\* PUT /auth/profile by user u with an avatar_url
UpdateProfile(u, avatar_url) ==
  /\ UNCHANGED socialVars
  /\ UNCHANGED send_failed
  /\ u \in DOMAIN users
  /\ users[u].avatar_url # avatar_url
  /\ users' = [users EXCEPT ![u].avatar_url = avatar_url]
  /\ UNCHANGED <<active_connections, rooms, messages, pc, connRoom, alive,
                 local, outbox, bc, frameNo, raised, http, now,
                 nickname_requests, tieOrder>>

\* ------------------------------------------------------------------ friends
\* friend_user_id of a FriendRequest or of the path: any str; "u9" is the id
\* of no user
FriendIds == UserIds \cup {"u9"}

\* to_list(50) of get_friends
FriendsPage == 50

\* friendship_doc and reverse_friendship_doc of send_friend_request
FriendshipDoc(user_id, friend_user_id) ==
  [user_id |-> user_id, friend_user_id |-> friend_user_id,
   last_message_time |-> None, unread_count |-> 0]

\* positions of the documents matching
\* {"user_id": user_id, "friend_user_id": friend_user_id}
FriendMatch(frs, user_id, friend_user_id) ==
  {i \in 1..Len(frs) : /\ frs[i].user_id = user_id
                       /\ frs[i].friend_user_id = friend_user_id}

\* the check of one direction only
ExistingOneWay(frs, user_id, friend_user_id) ==
  FriendMatch(frs, user_id, friend_user_id) # {}

\* existing_friendship of send_friend_request: find_one with the $or of both
\* directions
ExistingFriendship(frs, user_id, friend_user_id) ==
  FriendMatch(frs, user_id, friend_user_id)
    \cup FriendMatch(frs, friend_user_id, user_id) # {}

\* delete_one({"user_id": user_id, "friend_user_id": friend_user_id}): removes
\* the first matching document; deleted_count is 0 or 1
DeleteOne(frs, user_id, friend_user_id) ==
  LET m == FriendMatch(frs, user_id, friend_user_id) IN
    IF m = {} THEN [docs |-> frs, deleted_count |-> 0]
    ELSE LET i == CHOOSE j \in m : \A k \in m : j <= k
         IN [docs |-> SubSeq(frs, 1, i - 1) \o SubSeq(frs, i + 1, Len(frs)),
             deleted_count |-> 1]

\* db.friends.find({"user_id": user_id}).sort("last_message_time", -1)
\* .to_list(50) of get_friends, as the friend_user_id of each document; a
\* document without last_message_time sorts last
GetFriends(frs, user_id, tie) ==
  LET Mine(i) == frs[i].user_id = user_id
      Key(i) == IF frs[i].last_message_time = None THEN 0
                ELSE frs[i].last_message_time + 1
      First(i, j) == \/ Key(i) > Key(j)
                     \/ Key(i) = Key(j) /\ IF tie = "natural" THEN i < j ELSE i > j
      cursor == SortSeq(SelectSeq([i \in 1..Len(frs) |-> i], Mine), First)
      n == IF Len(cursor) < FriendsPage THEN Len(cursor) ELSE FriendsPage
  IN [k \in 1..n |-> frs[cursor[k]].friend_user_id]

\* a request slot is free for a new request
Free(t) == task[t].pc \in {"idle", "done"} /\ task[t].n < MaxCalls

\* POST /friends/request arrives and get_current_user has resolved the
\* caller: the handler waits for db.users.find_one of the friend
SendFriendRequest(t, u, friend_user_id) ==
  /\ Free(t) /\ u \in DOMAIN users
  /\ task' = [task EXCEPT ![t] =
       [NoTask EXCEPT !.op = "send_friend_request", !.pc = "find_user",
                      !.current_user = u, !.friend_user_id = friend_user_id,
                      !.n = task[t].n + 1]]
  /\ UNCHANGED <<active_connections, users, rooms, messages, pc, connRoom,
                 alive, local, outbox, bc, frameNo, raised, friends,
                 private_messages>>
  /\ UNCHANGED send_failed
  /\ UNCHANGED httpVars

\* friend_user = await db.users.find_one(...): 404, or on to the find_one of
\* db.friends
FriendFindUser(t) ==
  /\ task[t].op = "send_friend_request" /\ task[t].pc = "find_user"
  /\ task' = [task EXCEPT ![t] =
       IF UserMissing(users, task[t].friend_user_id)
         THEN [@ EXCEPT !.pc = "done", !.status = 404]
         ELSE [@ EXCEPT !.pc = "find_friendship"]]
  /\ UNCHANGED <<active_connections, users, rooms, messages, pc, connRoom,
                 alive, local, outbox, bc, frameNo, raised, friends,
                 private_messages>>
  /\ UNCHANGED send_failed
  /\ UNCHANGED httpVars

\* existing_friendship = await db.friends.find_one(...): 400, or on to the
\* first insert_one
FriendFindExisting(t) ==
  /\ task[t].op = "send_friend_request" /\ task[t].pc = "find_friendship"
  /\ task' = [task EXCEPT ![t] =
       IF ExistingFriendship(friends, task[t].current_user, task[t].friend_user_id)
         THEN [@ EXCEPT !.pc = "done", !.status = 400]
         ELSE [@ EXCEPT !.pc = "insert"]]
  /\ UNCHANGED <<active_connections, users, rooms, messages, pc, connRoom,
                 alive, local, outbox, bc, frameNo, raised, friends,
                 private_messages>>
  /\ UNCHANGED send_failed
  /\ UNCHANGED httpVars

\* await db.friends.insert_one(friendship_doc)
FriendInsert(t) ==
  /\ task[t].op = "send_friend_request" /\ task[t].pc = "insert"
  /\ friends' = Append(friends,
       FriendshipDoc(task[t].current_user, task[t].friend_user_id))
  /\ task' = [task EXCEPT ![t].pc = "insert_reverse"]
  /\ UNCHANGED <<active_connections, users, rooms, messages, pc, connRoom,
                 alive, local, outbox, bc, frameNo, raised, private_messages>>
  /\ UNCHANGED send_failed
  /\ UNCHANGED httpVars

\* await db.friends.insert_one(reverse_friendship_doc) and the response
FriendInsertReverse(t) ==
  /\ task[t].op = "send_friend_request" /\ task[t].pc = "insert_reverse"
  /\ friends' = Append(friends,
       FriendshipDoc(task[t].friend_user_id, task[t].current_user))
  /\ task' = [task EXCEPT ![t].pc = "done", ![t].status = 200]
  /\ UNCHANGED <<active_connections, users, rooms, messages, pc, connRoom,
                 alive, local, outbox, bc, frameNo, raised, private_messages>>
  /\ UNCHANGED send_failed
  /\ UNCHANGED httpVars

\* DELETE /friends/{friend_user_id} arrives and get_current_user has resolved
\* the caller: the handler waits for its first delete_one
RemoveFriend(t, u, friend_user_id) ==
  /\ Free(t) /\ u \in DOMAIN users
  /\ task' = [task EXCEPT ![t] =
       [NoTask EXCEPT !.op = "remove_friend", !.pc = "delete",
                      !.current_user = u, !.friend_user_id = friend_user_id,
                      !.n = task[t].n + 1]]
  /\ UNCHANGED <<active_connections, users, rooms, messages, pc, connRoom,
                 alive, local, outbox, bc, frameNo, raised, friends,
                 private_messages>>
  /\ UNCHANGED send_failed
  /\ UNCHANGED httpVars

\* result1 = await db.friends.delete_one(...)
RemoveDelete(t) ==
  /\ task[t].op = "remove_friend" /\ task[t].pc = "delete"
  /\ LET result1 == DeleteOne(friends, task[t].current_user, task[t].friend_user_id)
     IN /\ friends' = result1.docs
        /\ task' = [task EXCEPT ![t].pc = "delete_reverse",
                                ![t].deleted_count = result1.deleted_count]
  /\ UNCHANGED <<active_connections, users, rooms, messages, pc, connRoom,
                 alive, local, outbox, bc, frameNo, raised, private_messages>>
  /\ UNCHANGED send_failed
  /\ UNCHANGED httpVars

\* result2 = await db.friends.delete_one(...) and the response
RemoveDeleteReverse(t) ==
  /\ task[t].op = "remove_friend" /\ task[t].pc = "delete_reverse"
  /\ LET result2 == DeleteOne(friends, task[t].friend_user_id, task[t].current_user)
     IN /\ friends' = result2.docs
        /\ task' = [task EXCEPT
             ![t].pc = "done",
             ![t].status = IF task[t].deleted_count > 0 \/ result2.deleted_count > 0
                             THEN 200 ELSE 404]
  /\ UNCHANGED <<active_connections, users, rooms, messages, pc, connRoom,
                 alive, local, outbox, bc, frameNo, raised, private_messages>>
  /\ UNCHANGED send_failed
  /\ UNCHANGED httpVars

\* ----------------------------------------------------------------- register
\* email of a UserCreate
Emails == {"a@x", "b@x"}

\* user_id = str(uuid.uuid4()): an id no other call yields
NewUserId(t, n) ==
  IF t = "t1" THEN (IF n = 1 THEN "n1" ELSE "n2")
  ELSE (IF n = 1 THEN "n3" ELSE "n4")

\* db.users.find_one({"email": email}) found a document
EmailRegistered(usrs, email) == \E u \in DOMAIN usrs : usrs[u].email = email

\* POST /auth/register arrives: the handler waits for db.users.find_one
Register(t, email) ==
  /\ Free(t)
  /\ task' = [task EXCEPT ![t] =
       [NoTask EXCEPT !.op = "register", !.pc = "find_user", !.email = email,
                      !.n = task[t].n + 1]]
  /\ UNCHANGED <<active_connections, users, rooms, messages, pc, connRoom,
                 alive, local, outbox, bc, frameNo, raised, friends,
                 private_messages>>
  /\ UNCHANGED send_failed
  /\ UNCHANGED httpVars

\* existing_user = await db.users.find_one({"email": email}): 400, or on to
\* insert_one with the user_doc just built
RegisterFindUser(t) ==
  /\ task[t].op = "register" /\ task[t].pc = "find_user"
  /\ task' = [task EXCEPT ![t] =
       IF EmailRegistered(users, task[t].email)
         THEN [@ EXCEPT !.pc = "done", !.status = 400]
         ELSE [@ EXCEPT !.pc = "insert"]]
  /\ UNCHANGED <<active_connections, users, rooms, messages, pc, connRoom,
                 alive, local, outbox, bc, frameNo, raised, friends,
                 private_messages>>
  /\ UNCHANGED send_failed
  /\ UNCHANGED httpVars

\* await db.users.insert_one(user_doc) and the Token response
RegisterInsert(t) ==
  /\ task[t].op = "register" /\ task[t].pc = "insert"
  /\ users' = (NewUserId(t, task[t].n) :>
                 [nickname |-> "new", avatar_url |-> None, email |-> task[t].email])
              @@ users
  /\ task' = [task EXCEPT ![t].pc = "done", ![t].status = 200]
  /\ UNCHANGED <<active_connections, rooms, messages, pc, connRoom, alive,
                 local, outbox, bc, frameNo, raised, friends, private_messages>>
  /\ UNCHANGED send_failed
  /\ UNCHANGED httpVars

\* -------------------------------------------------------------------- rooms
\* room_id = str(uuid.uuid4()): an id no other call yields
NewRoomId(t, n) ==
  IF t = "t1" THEN (IF n = 1 THEN "m1" ELSE "m2")
  ELSE (IF n = 1 THEN "m3" ELSE "m4")

\* room_doc of create_room
RoomDoc(is_private, created_by) ==
  [is_private |-> is_private, created_by |-> created_by,
   members |-> <<created_by>>]

\* POST /rooms arrives and get_current_user has resolved the caller: the
\* handler waits for db.rooms.insert_one with the room_doc just built
CreateRoom(t, u, is_private) ==
  /\ Free(t) /\ u \in DOMAIN users
  /\ task' = [task EXCEPT ![t] =
       [NoTask EXCEPT !.op = "create_room", !.pc = "insert", !.current_user = u,
                      !.room_id = NewRoomId(t, task[t].n + 1),
                      !.is_private = is_private, !.n = task[t].n + 1]]
  /\ UNCHANGED <<active_connections, users, rooms, messages, pc, connRoom,
                 alive, local, outbox, bc, frameNo, raised, friends,
                 private_messages>>
  /\ UNCHANGED send_failed
  /\ UNCHANGED httpVars

\* await db.rooms.insert_one(room_doc) and the Room response
CreateRoomInsert(t) ==
  /\ task[t].op = "create_room" /\ task[t].pc = "insert"
  /\ rooms' = (task[t].room_id :> RoomDoc(task[t].is_private, task[t].current_user))
              @@ rooms
  /\ task' = [task EXCEPT ![t].pc = "done", ![t].status = 200]
  /\ UNCHANGED <<active_connections, users, messages, pc, connRoom, alive,
                 local, outbox, bc, frameNo, raised, friends, private_messages>>
  /\ UNCHANGED send_failed
  /\ UNCHANGED httpVars

\* POST /rooms/{room_id}/join arrives and get_current_user has resolved the
\* caller: the handler waits for db.rooms.find_one
JoinRoomRequest(t, u, room_id) ==
  /\ Free(t) /\ u \in DOMAIN users
  /\ task' = [task EXCEPT ![t] =
       [NoTask EXCEPT !.op = "join_room", !.pc = "find_room", !.current_user = u,
                      !.room_id = room_id, !.n = task[t].n + 1]]
  /\ UNCHANGED <<active_connections, users, rooms, messages, pc, connRoom,
                 alive, local, outbox, bc, frameNo, raised, friends,
                 private_messages>>
  /\ UNCHANGED send_failed
  /\ UNCHANGED httpVars

\* room = await db.rooms.find_one({"id": room_id}): 404, the response for a
\* member, or on to update_one
JoinRoomFind(t) ==
  /\ task[t].op = "join_room" /\ task[t].pc = "find_room"
  /\ task' = [task EXCEPT ![t] =
       IF RoomMissing(rooms, task[t].room_id)
         THEN [@ EXCEPT !.pc = "done", !.status = 404]
       ELSE IF task[t].current_user \notin Range(FindOne(rooms, task[t].room_id).members)
         THEN [@ EXCEPT !.pc = "update"]
       ELSE [@ EXCEPT !.pc = "done", !.status = 200]]
  /\ UNCHANGED <<active_connections, users, rooms, messages, pc, connRoom,
                 alive, local, outbox, bc, frameNo, raised, friends,
                 private_messages>>
  /\ UNCHANGED send_failed
  /\ UNCHANGED httpVars

\* await db.rooms.update_one({"id": room_id}, {"$addToSet": ...}) and the
\* response
JoinRoomUpdate(t) ==
  /\ task[t].op = "join_room" /\ task[t].pc = "update"
  /\ rooms' = [r \in DOMAIN rooms |->
                 IF r = task[t].room_id
                   THEN [rooms[r] EXCEPT !.members = AddToSet(@, task[t].current_user)]
                   ELSE rooms[r]]
  /\ task' = [task EXCEPT ![t].pc = "done", ![t].status = 200]
  /\ UNCHANGED <<active_connections, users, messages, pc, connRoom, alive,
                 local, outbox, bc, frameNo, raised, friends, private_messages>>
  /\ UNCHANGED send_failed
  /\ UNCHANGED httpVars

\* --------------------------------------------------------- private messages
\* limit(50) of get_private_messages
PrivatePage == 50

\* message_doc of send_private_message; returned records, for the
\* properties, that a get_private_messages of the recipient for the sender
\* had the message in the list it returns
PrivateMessageDoc(id, sender_id, recipient_id, created_at) ==
  [id |-> id, sender_id |-> sender_id, recipient_id |-> recipient_id,
   created_at |-> created_at, is_read |-> FALSE, returned |-> FALSE]

\* find({"$or": [...]}).sort("created_at", -1).limit(50).to_list(50) and
\* messages.reverse(): the ids of the messages between the two users
Conversation(pms, current_user, user_id, tie) ==
  LET Between(i) ==
        \/ pms[i].sender_id = current_user /\ pms[i].recipient_id = user_id
        \/ pms[i].sender_id = user_id /\ pms[i].recipient_id = current_user
      After(i, j) == Before(pms, tie, j, i)
      oldestFirst == SortSeq(SelectSeq([i \in 1..Len(pms) |-> i], Between), After)
      n == Len(oldestFirst)
      cursor == [k \in 1..n |-> oldestFirst[n + 1 - k]]
  IN Reverse(SubSeq(cursor, 1, IF n < PrivatePage THEN n ELSE PrivatePage))

\* update_many({"sender_id": user_id, "recipient_id": current_user,
\* "is_read": False}, {"$set": {"is_read": True}})
MarkRead(pms, user_id, current_user) ==
  [i \in 1..Len(pms) |->
     IF pms[i].sender_id = user_id /\ pms[i].recipient_id = current_user
       THEN [pms[i] EXCEPT !.is_read = TRUE] ELSE pms[i]]

\* the first document of db.friends matching the filter, 0 for none
FirstFriend(frs, user_id, friend_user_id) ==
  LET m == FriendMatch(frs, user_id, friend_user_id) IN
    IF m = {} THEN 0 ELSE CHOOSE j \in m : \A k \in m : j <= k

\* update_one(filter, {"$set": {"last_message": ..., "last_message_time": ...}})
SetLastMessage(frs, user_id, friend_user_id, time) ==
  [i \in 1..Len(frs) |->
     IF i = FirstFriend(frs, user_id, friend_user_id)
       THEN [frs[i] EXCEPT !.last_message_time = time] ELSE frs[i]]

\* the same with {"$inc": {"unread_count": 1}}
IncUnread(frs, user_id, friend_user_id, time) ==
  [i \in 1..Len(frs) |->
     IF i = FirstFriend(frs, user_id, friend_user_id)
       THEN [frs[i] EXCEPT !.last_message_time = time, !.unread_count = @ + 1]
       ELSE frs[i]]

\* update_one(filter, {"$set": {"unread_count": 0}})
ResetUnread(frs, user_id, friend_user_id) ==
  [i \in 1..Len(frs) |->
     IF i = FirstFriend(frs, user_id, friend_user_id)
       THEN [frs[i] EXCEPT !.unread_count = 0] ELSE frs[i]]

\* POST /private-messages arrives and get_current_user has resolved the
\* caller: the handler waits for db.users.find_one of the recipient
SendPrivateMessage(t, u, recipient_id) ==
  /\ Free(t) /\ u \in DOMAIN users
  /\ task' = [task EXCEPT ![t] =
       [NoTask EXCEPT !.op = "send_private_message", !.pc = "find_user",
                      !.current_user = u, !.recipient_id = recipient_id,
                      !.n = task[t].n + 1]]
  /\ UNCHANGED <<active_connections, users, rooms, messages, pc, connRoom,
                 alive, local, outbox, bc, frameNo, raised, friends,
                 private_messages>>
  /\ UNCHANGED send_failed
  /\ UNCHANGED httpVars

\* recipient = await db.users.find_one(...): 404, or on to insert_one with
\* the message_doc just built
PrivateFindRecipient(t) ==
  /\ task[t].op = "send_private_message" /\ task[t].pc = "find_user"
  /\ task' = [task EXCEPT ![t] =
       IF UserMissing(users, task[t].recipient_id)
         THEN [@ EXCEPT !.pc = "done", !.status = 404]
         ELSE [@ EXCEPT !.pc = "insert", !.created_at = now]]
  /\ UNCHANGED <<active_connections, users, rooms, messages, pc, connRoom,
                 alive, local, outbox, bc, frameNo, raised, friends,
                 private_messages>>
  /\ UNCHANGED send_failed
  /\ UNCHANGED httpVars

\* await db.private_messages.insert_one(message_doc)
PrivateInsert(t) ==
  /\ task[t].op = "send_private_message" /\ task[t].pc = "insert"
  /\ private_messages' = Append(private_messages,
       PrivateMessageDoc(Len(private_messages) + 1, task[t].current_user,
                         task[t].recipient_id, task[t].created_at))
  /\ task' = [task EXCEPT ![t].pc = "find_friendship"]
  /\ UNCHANGED <<active_connections, users, rooms, messages, pc, connRoom,
                 alive, local, outbox, bc, frameNo, raised, friends>>
  /\ UNCHANGED send_failed
  /\ UNCHANGED httpVars

\* friendship = await db.friends.find_one(...): the response, or on to the
\* first update_one
PrivateFindFriendship(t) ==
  /\ task[t].op = "send_private_message" /\ task[t].pc = "find_friendship"
  /\ task' = [task EXCEPT ![t] =
       IF ExistingOneWay(friends, task[t].current_user, task[t].recipient_id)
         THEN [@ EXCEPT !.pc = "update_friend"]
         ELSE [@ EXCEPT !.pc = "done", !.status = 200]]
  /\ UNCHANGED <<active_connections, users, rooms, messages, pc, connRoom,
                 alive, local, outbox, bc, frameNo, raised, friends,
                 private_messages>>
  /\ UNCHANGED send_failed
  /\ UNCHANGED httpVars

\* await db.friends.update_one of the sender's friendship
PrivateUpdateFriend(t) ==
  /\ task[t].op = "send_private_message" /\ task[t].pc = "update_friend"
  /\ friends' = SetLastMessage(friends, task[t].current_user,
                               task[t].recipient_id, now)
  /\ task' = [task EXCEPT ![t].pc = "update_reverse"]
  /\ UNCHANGED <<active_connections, users, rooms, messages, pc, connRoom,
                 alive, local, outbox, bc, frameNo, raised, private_messages>>
  /\ UNCHANGED send_failed
  /\ UNCHANGED httpVars

\* await db.friends.update_one of the recipient's friendship and the response
PrivateUpdateReverse(t) ==
  /\ task[t].op = "send_private_message" /\ task[t].pc = "update_reverse"
  /\ friends' = IncUnread(friends, task[t].recipient_id, task[t].current_user, now)
  /\ task' = [task EXCEPT ![t].pc = "done", ![t].status = 200]
  /\ UNCHANGED <<active_connections, users, rooms, messages, pc, connRoom,
                 alive, local, outbox, bc, frameNo, raised, private_messages>>
  /\ UNCHANGED send_failed
  /\ UNCHANGED httpVars

\* GET /private-messages/{user_id} arrives and get_current_user has resolved
\* the caller: the handler waits for db.users.find_one of the other user
GetPrivateMessages(t, u, user_id) ==
  /\ Free(t) /\ u \in DOMAIN users
  /\ task' = [task EXCEPT ![t] =
       [NoTask EXCEPT !.op = "get_private_messages", !.pc = "find_user",
                      !.current_user = u, !.user_id = user_id,
                      !.n = task[t].n + 1]]
  /\ UNCHANGED <<active_connections, users, rooms, messages, pc, connRoom,
                 alive, local, outbox, bc, frameNo, raised, friends,
                 private_messages>>
  /\ UNCHANGED send_failed
  /\ UNCHANGED httpVars

\* other_user = await db.users.find_one(...): 404, or on to the find
GetPrivateFindUser(t) ==
  /\ task[t].op = "get_private_messages" /\ task[t].pc = "find_user"
  /\ task' = [task EXCEPT ![t] =
       IF UserMissing(users, task[t].user_id)
         THEN [@ EXCEPT !.pc = "done", !.status = 404]
         ELSE [@ EXCEPT !.pc = "find_messages"]]
  /\ UNCHANGED <<active_connections, users, rooms, messages, pc, connRoom,
                 alive, local, outbox, bc, frameNo, raised, friends,
                 private_messages>>
  /\ UNCHANGED send_failed
  /\ UNCHANGED httpVars

\* messages = await db.private_messages.find(...)...to_list(50) and
\* messages.reverse(): the list the handler returns
GetPrivateFind(t) ==
  /\ task[t].op = "get_private_messages" /\ task[t].pc = "find_messages"
  /\ LET list == Conversation(private_messages, task[t].current_user,
                              task[t].user_id, tieOrder)
     IN /\ task' = [task EXCEPT ![t].pc = "update_many", ![t].messages = list]
        /\ private_messages' =
             [i \in 1..Len(private_messages) |->
                IF i \in Range(list)
                   /\ private_messages[i].recipient_id = task[t].current_user
                  THEN [private_messages[i] EXCEPT !.returned = TRUE]
                  ELSE private_messages[i]]
  /\ UNCHANGED <<active_connections, users, rooms, messages, pc, connRoom,
                 alive, local, outbox, bc, frameNo, raised, friends>>
  /\ UNCHANGED send_failed
  /\ UNCHANGED httpVars

\* await db.private_messages.update_many(...)
GetPrivateMarkRead(t) ==
  /\ task[t].op = "get_private_messages" /\ task[t].pc = "update_many"
  /\ private_messages' = MarkRead(private_messages, task[t].user_id,
                                  task[t].current_user)
  /\ task' = [task EXCEPT ![t].pc = "find_friendship"]
  /\ UNCHANGED <<active_connections, users, rooms, messages, pc, connRoom,
                 alive, local, outbox, bc, frameNo, raised, friends>>
  /\ UNCHANGED send_failed
  /\ UNCHANGED httpVars

\* friendship = await db.friends.find_one(...): the response, or on to
\* update_one
GetPrivateFindFriendship(t) ==
  /\ task[t].op = "get_private_messages" /\ task[t].pc = "find_friendship"
  /\ task' = [task EXCEPT ![t] =
       IF ExistingOneWay(friends, task[t].current_user, task[t].user_id)
         THEN [@ EXCEPT !.pc = "update_friend"]
         ELSE [@ EXCEPT !.pc = "done", !.status = 200]]
  /\ UNCHANGED <<active_connections, users, rooms, messages, pc, connRoom,
                 alive, local, outbox, bc, frameNo, raised, friends,
                 private_messages>>
  /\ UNCHANGED send_failed
  /\ UNCHANGED httpVars

\* await db.friends.update_one(..., {"$set": {"unread_count": 0}}) and the
\* response
GetPrivateResetUnread(t) ==
  /\ task[t].op = "get_private_messages" /\ task[t].pc = "update_friend"
  /\ friends' = ResetUnread(friends, task[t].current_user, task[t].user_id)
  /\ task' = [task EXCEPT ![t].pc = "done", ![t].status = 200]
  /\ UNCHANGED <<active_connections, users, rooms, messages, pc, connRoom,
                 alive, local, outbox, bc, frameNo, raised, private_messages>>
  /\ UNCHANGED send_failed
  /\ UNCHANGED httpVars

\* ------------------------------------------------------------ specification
Init ==
  /\ active_connections = [r \in {} |-> <<>>]
  /\ users = [u \in {"u1", "u2"} |->
               [nickname |-> IF u = "u1" THEN "alice" ELSE "bob", avatar_url |-> None]]
  /\ rooms = [r \in {"r1", "r2"} |->
               [is_private |-> (r = "r2"),
                members |-> IF r = "r1" THEN <<"u1", "u2">> ELSE <<"u1">>]]
  /\ messages = <<>>
  /\ pc = [c \in Conns |-> "idle"]
  /\ connRoom = [c \in Conns |-> None]
  /\ alive = [c \in Conns |-> FALSE]
  /\ local = [c \in Conns |-> NoLocal]
  /\ outbox = [c \in Conns |-> <<>>]
  /\ bc = [c \in Conns |-> NoBc]
  /\ frameNo = 0
  /\ raised = NoCall
  /\ http = [h \in Reqs |-> NoRequest]
  /\ now = 0
  /\ nickname_requests = <<>>
  /\ tieOrder = "natural"
  /\ friends = <<>>
  /\ private_messages = <<>>
  /\ task = [t \in Tasks |-> NoTask]
  /\ send_failed = {}

Next ==
  \/ \E c \in Conns : \E r \in RoomChoice(c) : Connect(c, r)
  \/ \E c \in Conns : PeerClose(c)
  \/ \E c \in Conns, f \in Frames : Receive(c, f)
  \/ \E c \in Conns : ReceiveDisconnect(c)
  \/ \E c \in Conns : SendError(c)
  \/ \E c \in Conns : SendErrorDisconnect(c)
  \/ \E c \in Conns : SendErrorFail(c)
  \/ \E c \in Conns : FindUser(c)
  \/ \E c \in Conns : FindRoom(c)
  \/ \E c \in Conns : DbFail(c)
  \/ \E c \in Conns : InsertMessage(c)
  \/ \E c \in Conns : BroadcastSend(c)
  \/ \E u \in UserIds, r \in RoomIds : JoinRoom(u, r)

Spec == Init /\ [][Next]_vars

\* ---------------------------------------- ConnectionManager called directly
\* manager.disconnect(websocket, room_id) called for a socket that is
\* registered, or that has been unregistered before
ManagerDisconnect(c) ==
  /\ UNCHANGED socialVars
  /\ UNCHANGED send_failed
  /\ UNCHANGED httpVars
  /\ pc[c] \in {"receive", "closed"}
  /\ LET d == disconnect(active_connections, c, connRoom[c]) IN
       /\ active_connections' = d.ac
       /\ raised' = [ws |-> c, exc |-> d.raised, tick |-> 1 - raised.tick]
  /\ pc' = [pc EXCEPT ![c] = "closed"]
  /\ alive' = [alive EXCEPT ![c] = FALSE]
  /\ UNCHANGED <<users, rooms, messages, connRoom, local, outbox, bc, frameNo>>

NextManager ==
  \/ \E c \in Conns : \E r \in RoomIds : Connect(c, r)
  \/ \E c \in Conns : ManagerDisconnect(c)

SpecManager == Init /\ [][NextManager]_vars

\* --------------------------------------------- HTTP send beside a session
\* db.users with a document from before the schema migration: it has "name"
\* and no "nickname"
UsersWithLegacy ==
  [u \in {"u1", "u2", "u3"} |->
     [nickname |-> IF u = "u1" THEN "alice" ELSE IF u = "u2" THEN "bob" ELSE None,
      avatar_url |-> None]]

\* frames that pass the token check: a token issued to a user and a content
AcceptableFrames ==
  {f \in Frames : f.json /\ f.token.kind = "valid" /\ f.content # None}

InitHttp ==
  /\ active_connections = [r \in {} |-> <<>>]
  /\ users = UsersWithLegacy
  /\ rooms = [r \in {"r1", "r2"} |->
               [is_private |-> (r = "r2"),
                members |-> IF r = "r1" THEN <<"u1", "u2">> ELSE <<"u1">>]]
  /\ messages = <<>>
  /\ pc = [c \in Conns |-> "idle"]
  /\ connRoom = [c \in Conns |-> None]
  /\ alive = [c \in Conns |-> FALSE]
  /\ local = [c \in Conns |-> NoLocal]
  /\ outbox = [c \in Conns |-> <<>>]
  /\ bc = [c \in Conns |-> NoBc]
  /\ frameNo = 0
  /\ raised = NoCall
  /\ http = [h \in Reqs |-> NoRequest]
  /\ now = 0
  /\ nickname_requests = <<>>
  /\ tieOrder = "natural"
  /\ friends = <<>>
  /\ private_messages = <<>>
  /\ task = [t \in Tasks |-> NoTask]
  /\ send_failed = {}

NextHttp ==
  \/ \E c \in {"w1"} : Connect(c, "r1")
  \/ \E c \in Conns, f \in AcceptableFrames : Receive(c, f)
  \/ \E c \in Conns : FindUser(c)
  \/ \E c \in Conns : FindRoom(c)
  \/ \E c \in Conns : InsertMessage(c)
  \/ \E c \in Conns : BroadcastSend(c)
  \/ \E cr \in HttpCredentials, r \in RoomIds :
       HttpRequest("h1", "send", cr, r, "hi")
  \/ HttpRequest("h2", "send", [kind |-> "valid", sub |-> "u1"], "r1", "hi")
  \/ \E h \in Reqs : HttpFindUser(h)
  \/ \E h \in Reqs : HttpFindRoom(h)
  \/ \E h \in Reqs : SendMessageHttp(h)
  \/ \E n \in NewNicknames : RequestNicknameChange("u1", n)
  \/ \E i \in 1..MaxNicknameRequests : ApproveNicknameRequest(i)
  \/ \E a \in AvatarUrls : UpdateProfile("u1", a)

SpecHttp == InitHttp /\ [][NextHttp]_vars

\* ---------------------------------------------------- content of a message
\* content of a MessageCreate body or of a frame: any str, the empty one
\* included
Contents == {"hi", ""}

\* frames with a token issued to a member of r1 and a content
ContentFrames ==
  {[json |-> TRUE, token |-> [kind |-> "valid", sub |-> u], content |-> c] :
     u \in {"u1", "u2"}, c \in Contents}

NextContent ==
  \/ \E c \in {"w1"} : Connect(c, "r1")
  \/ \E c \in Conns, f \in ContentFrames : Receive(c, f)
  \/ \E c \in Conns : FindUser(c)
  \/ \E c \in Conns : FindRoom(c)
  \/ \E c \in Conns : InsertMessage(c)
  \/ \E c \in Conns : BroadcastSend(c)
  \/ \E h \in Reqs, u \in {"u1", "u2"}, r \in {"r1", "r2"}, c \in Contents :
       HttpRequest(h, "send", [kind |-> "valid", sub |-> u], r, c)
  \/ \E h \in Reqs : HttpFindUser(h)
  \/ \E h \in Reqs : HttpFindRoom(h)
  \/ \E h \in Reqs : SendMessageHttp(h)

SpecContent == InitHttp /\ [][NextContent]_vars

\* ------------------------------------------------------------------ friends
\* the users who call the friends handlers
FriendCallers == {"u1", "u2"}

NextFriends ==
  \/ \E t \in Tasks, u \in FriendCallers, f \in FriendIds : SendFriendRequest(t, u, f)
  \/ \E t \in Tasks : FriendFindUser(t)
  \/ \E t \in Tasks : FriendFindExisting(t)
  \/ \E t \in Tasks : FriendInsert(t)
  \/ \E t \in Tasks : FriendInsertReverse(t)
  \/ \E t \in Tasks, u \in FriendCallers, f \in FriendIds : RemoveFriend(t, u, f)
  \/ \E t \in Tasks : RemoveDelete(t)
  \/ \E t \in Tasks : RemoveDeleteReverse(t)

SpecFriends == InitHttp /\ [][NextFriends]_vars

\* ----------------------------------------------------------------- register
\* db.users with the email of each document
UsersWithEmail ==
  [u \in {"u1"} |-> [nickname |-> "alice", avatar_url |-> None, email |-> "a@x"]]

InitRegister ==
  /\ active_connections = [r \in {} |-> <<>>]
  /\ users = UsersWithEmail
  /\ rooms = [r \in {"r1", "r2"} |->
               [is_private |-> (r = "r2"),
                members |-> IF r = "r1" THEN <<"u1", "u2">> ELSE <<"u1">>]]
  /\ messages = <<>>
  /\ pc = [c \in Conns |-> "idle"]
  /\ connRoom = [c \in Conns |-> None]
  /\ alive = [c \in Conns |-> FALSE]
  /\ local = [c \in Conns |-> NoLocal]
  /\ outbox = [c \in Conns |-> <<>>]
  /\ bc = [c \in Conns |-> NoBc]
  /\ frameNo = 0
  /\ raised = NoCall
  /\ http = [h \in Reqs |-> NoRequest]
  /\ now = 0
  /\ nickname_requests = <<>>
  /\ tieOrder = "natural"
  /\ friends = <<>>
  /\ private_messages = <<>>
  /\ task = [t \in Tasks |-> NoTask]
  /\ send_failed = {}

NextRegister ==
  \/ \E t \in Tasks, e \in Emails : Register(t, e)
  \/ \E t \in Tasks : RegisterFindUser(t)
  \/ \E t \in Tasks : RegisterInsert(t)

SpecRegister == InitRegister /\ [][NextRegister]_vars

\* -------------------------------------------------------------------- rooms
\* db.rooms with the creator of each room
RoomsWithCreator ==
  [r \in {"r1", "r2"} |->
     [is_private |-> (r = "r2"), created_by |-> "u1",
      members |-> IF r = "r1" THEN <<"u1", "u2">> ELSE <<"u1">>]]

\* the room ids of the join requests: a private room, no room, a room that
\* a create_room may have stored
JoinRoomIds == {"r2", "r9", NewRoomId("t1", 1)}

\* the frame of the session on the private room: a token of u2 and a content
PrivateRoomFrames ==
  {[json |-> TRUE, token |-> [kind |-> "valid", sub |-> "u2"], content |-> "hi"]}

InitRooms ==
  /\ active_connections = [r \in {} |-> <<>>]
  /\ users = UsersWithLegacy
  /\ rooms = RoomsWithCreator
  /\ messages = <<>>
  /\ pc = [c \in Conns |-> "idle"]
  /\ connRoom = [c \in Conns |-> None]
  /\ alive = [c \in Conns |-> FALSE]
  /\ local = [c \in Conns |-> NoLocal]
  /\ outbox = [c \in Conns |-> <<>>]
  /\ bc = [c \in Conns |-> NoBc]
  /\ frameNo = 0
  /\ raised = NoCall
  /\ http = [h \in Reqs |-> NoRequest]
  /\ now = 0
  /\ nickname_requests = <<>>
  /\ tieOrder = "natural"
  /\ friends = <<>>
  /\ private_messages = <<>>
  /\ task = [t \in Tasks |-> NoTask]
  /\ send_failed = {}

NextRooms ==
  \/ \E u \in {"u3"}, p \in BOOLEAN : CreateRoom("t1", u, p)
  \/ \E t \in Tasks : CreateRoomInsert(t)
  \/ \E t \in Tasks, u \in {"u2"}, r \in JoinRoomIds : JoinRoomRequest(t, u, r)
  \/ \E t \in Tasks : JoinRoomFind(t)
  \/ \E t \in Tasks : JoinRoomUpdate(t)
  \/ \E op \in {"send", "history"} :
       HttpRequest("h1", op, [kind |-> "valid", sub |-> "u2"], "r2", "hi")
  \/ \E h \in Reqs : HttpFindUser(h)
  \/ \E h \in Reqs : HttpFindRoom(h)
  \/ \E h \in Reqs : SendMessageHttp(h)
  \/ \E h \in Reqs : GetRoomMessages(h)
  \/ Connect("w3", "r2")
  \/ \E f \in PrivateRoomFrames : Receive("w3", f)
  \/ \E c \in Conns : FindUser(c)
  \/ \E c \in Conns : FindRoom(c)
  \/ \E c \in Conns : SendError(c)
  \/ \E c \in Conns : InsertMessage(c)
  \/ \E c \in Conns : BroadcastSend(c)

SpecRooms == InitRooms /\ [][NextRooms]_vars

\* --------------------------------------------------------- private messages
\* db.friends after send_friend_request of u1 for u2
FriendsOfU1U2 == <<FriendshipDoc("u1", "u2"), FriendshipDoc("u2", "u1")>>

InitPrivate ==
  /\ active_connections = [r \in {} |-> <<>>]
  /\ users = UsersWithLegacy
  /\ rooms = RoomsWithCreator
  /\ messages = <<>>
  /\ pc = [c \in Conns |-> "idle"]
  /\ connRoom = [c \in Conns |-> None]
  /\ alive = [c \in Conns |-> FALSE]
  /\ local = [c \in Conns |-> NoLocal]
  /\ outbox = [c \in Conns |-> <<>>]
  /\ bc = [c \in Conns |-> NoBc]
  /\ frameNo = 0
  /\ raised = NoCall
  /\ http = [h \in Reqs |-> NoRequest]
  /\ now = 0
  /\ nickname_requests = <<>>
  /\ tieOrder = "natural"
  /\ friends \in {<<>>, FriendsOfU1U2}
  /\ private_messages = <<>>
  /\ task = [t \in Tasks |-> NoTask]
  /\ send_failed = {}

NextPrivate ==
  \/ \E t \in Tasks, u \in {"u1", "u3"}, r \in {"u2", "u9"} : SendPrivateMessage(t, u, r)
  \/ \E t \in Tasks : PrivateFindRecipient(t)
  \/ \E t \in Tasks : PrivateInsert(t)
  \/ \E t \in Tasks : PrivateFindFriendship(t)
  \/ \E t \in Tasks : PrivateUpdateFriend(t)
  \/ \E t \in Tasks : PrivateUpdateReverse(t)
  \/ \E t \in Tasks, x \in {"u1", "u9"} : GetPrivateMessages(t, "u2", x)
  \/ \E t \in Tasks : GetPrivateFindUser(t)
  \/ \E t \in Tasks : GetPrivateFind(t)
  \/ \E t \in Tasks : GetPrivateMarkRead(t)
  \/ \E t \in Tasks : GetPrivateFindFriendship(t)
  \/ \E t \in Tasks : GetPrivateResetUnread(t)

SpecPrivate == InitPrivate /\ [][NextPrivate]_vars

\* -------------------------------------------------- history of a full room
\* numbers of room messages stored before the behaviour starts
PreloadSizes == {0, 54}

\* a store filled by earlier requests of user u1 on both transports: every
\* tenth message in room r2, the others in r1, two messages per clock value
Preload(n) ==
  [i \in 1..n |->
     IF i % 2 = 0
       THEN HttpMessageDoc(i, "old", IF i % 10 = 0 THEN "r2" ELSE "r1",
                           CurrentUser(UsersWithLegacy, "u1"),
                           0 - ((n - i) \div 2))
       ELSE MessageDoc(i, "old", "r1", "u1", "alice", None,
                       0 - ((n - i) \div 2), "ws", "w2", 0)]

InitHistory ==
  /\ active_connections = [r \in {} |-> <<>>]
  /\ users = UsersWithLegacy
  /\ rooms = [r \in {"r1", "r2"} |->
               [is_private |-> (r = "r2"),
                members |-> IF r = "r1" THEN <<"u1", "u2">> ELSE <<"u1">>]]
  /\ messages \in {Preload(n) : n \in PreloadSizes}
  /\ pc = [c \in Conns |-> "idle"]
  /\ connRoom = [c \in Conns |-> None]
  /\ alive = [c \in Conns |-> FALSE]
  /\ local = [c \in Conns |-> NoLocal]
  /\ outbox = [c \in Conns |-> <<>>]
  /\ bc = [c \in Conns |-> NoBc]
  /\ frameNo = 0
  /\ raised = NoCall
  /\ http = [h \in Reqs |-> NoRequest]
  /\ now = 0
  /\ nickname_requests = <<>>
  /\ tieOrder \in TieOrders
  /\ friends = <<>>
  /\ private_messages = <<>>
  /\ task = [t \in Tasks |-> NoTask]
  /\ send_failed = {}

NextHistory ==
  \/ \E c \in {"w1"} : Connect(c, "r1")
  \/ \E c \in Conns :
       Receive(c, [json |-> TRUE, token |-> [kind |-> "valid", sub |-> "u2"],
                   content |-> "hi"])
  \/ \E c \in Conns : FindUser(c)
  \/ \E c \in Conns : FindRoom(c)
  \/ \E c \in Conns : InsertMessage(c)
  \/ \E c \in Conns : BroadcastSend(c)
  \/ \E op \in {"send", "history"}, u \in {"u1", "u2"}, r \in RoomIds :
       HttpRequest("h1", op, [kind |-> "valid", sub |-> u], r,
                   IF op = "send" THEN "hi" ELSE None)
  \/ HttpRequest("h2", "history", [kind |-> "valid", sub |-> "u2"], "r1", None)
  \/ HttpRequest("h2", "send", [kind |-> "valid", sub |-> "u3"], "r1", "hi")
  \/ \E h \in Reqs : HttpFindUser(h)
  \/ \E h \in Reqs : HttpFindRoom(h)
  \/ \E h \in Reqs : SendMessageHttp(h)
  \/ \E h \in Reqs : GetRoomMessages(h)
  \/ Tick

SpecHistory == InitHistory /\ [][NextHistory]_vars

\* ------------------------------------------------------------------ helpers
Registered(c) == \E r \in DOMAIN active_connections : c \in Range(active_connections[r])

HasMsg(box, id) == \E i \in 1..Len(box) : box[i].type = "message" /\ box[i].id = id

Copies(box, id) == Cardinality({i \in 1..Len(box) : box[i].type = "message" /\ box[i].id = id})

\* the session of c takes a step
Steps(c) == pc'[c] # pc[c]

\* the broadcast_to_room of session s returns in this step
Returns(s) == pc[s] = AwaitBroadcast /\ bc[s].target # None /\ bc'[s].target = None

\* the room of c is private and the user of the frame is not a member
NonMember(c) ==
  /\ connRoom[c] \in DOMAIN rooms
  /\ rooms[connRoom[c]].is_private
  /\ local[c].user_id \notin Range(rooms[connRoom[c]].members)

\* ------------------------------------------------------------------- claims
\* C1: a frame whose user is not a member of the connection's private room is
\* answered with {"error": "Access denied"} on that connection; the session
\* appends no message for it and starts no broadcast.
C1_AuthorizationPrecedesPersistence ==
  [][\A c \in Conns :
       /\ (pc[c] = "find_room" /\ NonMember(c) /\ Steps(c)) =>
            /\ messages' = messages /\ outbox' = outbox /\ bc'[c] = NoBc
            /\ \/ pc'[c] = "crashed"
               \/ pc'[c] = "send_error" /\ local'[c].err = "Access denied"
       /\ (pc[c] = "send_error" /\ local[c].err = "Access denied" /\ Steps(c)) =>
            /\ messages' = messages /\ bc'[c] = NoBc
            /\ pc'[c] \in {"receive", "closed", "crashed"}
            /\ alive[c] => outbox' = [outbox EXCEPT ![c] =
                                        Append(@, ErrorFrame("Access denied"))]
            /\ ~alive[c] => outbox' = outbox]_vars

C1_Witness ==
  \E c \in Conns :
    /\ pc[c] = "receive"
    /\ \E i \in 1..Len(outbox[c]) : outbox[c][i] = ErrorFrame("Access denied")
    /\ messages = <<>>

\* C2: every message stored by websocket_endpoint has an author taken from a
\* verified token, present in db.users and allowed in the room; a session is
\* about to append only when all the checks of the frame have passed.
C2_StoredMessagesAuthorized ==
  /\ \A i \in 1..Len(messages) :
       messages[i].via = "ws" =>
         /\ messages[i].user_id \in DOMAIN users
         /\ messages[i].user_name = users[messages[i].user_id].nickname
         /\ messages[i].room_id \in DOMAIN rooms
         /\ ~rooms[messages[i].room_id].is_private
              \/ messages[i].user_id \in Range(rooms[messages[i].room_id].members)
  /\ \A c \in Conns :
       /\ pc[c] \in {"find_user", "find_room", "insert"} =>
            local[c].token.kind = "valid" /\ local[c].user_id = local[c].token.sub
       /\ pc[c] \in {"find_room", "insert"} => local[c].user_id \in DOMAIN users
       /\ pc[c] = "insert" =>
            /\ connRoom[c] \in DOMAIN rooms
            /\ ~rooms[connRoom[c]].is_private
                 \/ local[c].user_id \in Range(rooms[connRoom[c]].members)

C2_Witness ==
  \E i \in 1..Len(messages) :
    /\ messages[i].via = "ws"
    /\ messages[i].room_id = "r2"
    /\ messages[i].user_id = "u2"

\* C3: a frame with a missing token, an invalid token, an unknown user or an
\* unknown room gets exactly one error frame with the matching text, on its
\* own connection only; store and registry are unchanged, the connection stays
\* registered and the session awaits the next frame.
ProtocolErrors == {"No token provided", "Invalid token", "User not found", "Room not found"}

C3_ErrorText(c) ==
  /\ local[c].token.kind = "none" => local[c].err = "No token provided"
  /\ local[c].token.kind \in {"bad", "nosub"} => local[c].err = "Invalid token"
  /\ (local[c].token.kind = "valid" /\ local[c].token.sub \notin DOMAIN users) =>
       local[c].err = "User not found"
  /\ (local[c].token.kind = "valid" /\ local[c].token.sub \in DOMAIN users
        /\ connRoom[c] \notin DOMAIN rooms) => local[c].err = "Room not found"

C3_ProtocolErrorsRecoverable ==
  [][\A c \in Conns :
       /\ (pc'[c] = "send_error") => C3_ErrorText(c)'
       /\ (pc'[c] \in {"find_user", "find_room", "insert", AwaitBroadcast}
             /\ pc[c] \in {"receive", "find_user", "find_room"} /\ Steps(c)) =>
            /\ local'[c].token.kind = "valid"
            /\ pc'[c] # "find_user" => local'[c].token.sub \in DOMAIN users
            /\ pc'[c] = "insert" => connRoom[c] \in DOMAIN rooms
       /\ (pc[c] = "send_error" /\ local[c].err \in ProtocolErrors
             /\ alive[c] /\ Steps(c)) =>
            /\ outbox' = [outbox EXCEPT ![c] = Append(@, ErrorFrame(local[c].err))]
            /\ messages' = messages
            /\ active_connections' = active_connections
            /\ c \in Range(active_connections'[connRoom[c]])
            /\ pc'[c] = "receive"]_vars

C3_Witness ==
  \E c \in Conns :
    /\ Len(outbox[c]) = 2
    /\ outbox[c][1].type = "error" /\ outbox[c][1].error \in ProtocolErrors
    /\ outbox[c][2].type = "message" /\ messages[outbox[c][2].id].conn = c

\* C4: a broadcast to room A delivers no frame to a connection registered
\* under another room B, and never targets one.
C4_RegistryIsolation ==
  /\ \A c \in Conns : \A i \in 1..Len(outbox[c]) :
       outbox[c][i].type = "message" => outbox[c][i].room_id = connRoom[c]
  /\ \A s \in Conns :
       bc[s].target # None => connRoom[bc[s].target] = connRoom[s]

C4_Witness ==
  \E s \in Conns, c \in Conns :
    /\ connRoom[c] # connRoom[s] /\ Registered(c) /\ alive[c]
    /\ pc[s] = AwaitBroadcast /\ HasMsg(outbox[s], bc[s].msg)
    /\ ~HasMsg(outbox[c], bc[s].msg)

C6_MandatoryCleanup ==
  \A c \in Conns : pc[c] \in {"closed", "crashed"} => ~Registered(c)

\* C7: a second manager.disconnect(ws, room) for the same connection and room
\* raises nothing and leaves the registry unchanged.
C7_IdempotentUnregister ==
  [][\A c \in Conns :
       (pc[c] = "closed" /\ raised' # raised /\ raised'.ws = c) =>
         raised'.exc = None /\ active_connections' = active_connections]_vars

\* C8: when a send of a broadcast fails, every other connection registered
\* for the room still receives the payload, the broadcast returns and the
\* sender's session goes on to its next frame without an error frame.
C8_FanOutCompleteness ==
  [][\A s \in Conns :
       (Returns(s) /\ (bc[s].failed \/ ~alive[bc[s].target])) =>
         /\ pc'[s] = "receive"
         /\ \A i \in 1..Len(outbox'[s]) :
              i > Len(outbox[s]) => outbox'[s][i].type = "message"
         /\ \A c \in bc[s].stable :
              (alive[c] /\ c \in Range(active_connections[connRoom[s]])) =>
                HasMsg(outbox'[c], bc[s].msg)]_vars

\* C9: when the room's list changes while a broadcast is suspended, every
\* connection registered for the room during the whole broadcast has received
\* the payload exactly once when the broadcast returns.
C9_SnapshotIteration ==
  [][\A s \in Conns :
       (Returns(s) /\ bc[s].changed) =>
         \A c \in bc[s].stable : alive[c] => Copies(outbox'[c], bc[s].msg) = 1]_vars

\* C10: the frames of one connection are processed one after the other: a
\* session that awaits a frame has no step of an earlier frame pending, and
\* the messages accepted from one connection are in the store and in every
\* peer's frames in the order the connection sent them.
C10_OrderPerConnection ==
  /\ \A c \in Conns :
       /\ pc[c] \in {"idle", "receive", "closed", "crashed"} =>
            bc[c] = NoBc /\ local[c] = NoLocal
       /\ pc[c] = AwaitBroadcast <=> bc[c].target # None
       /\ \A i \in 1..Len(messages) :
            messages[i].conn = c =>
              /\ local[c].frame # 0 => messages[i].frame < local[c].frame
              /\ bc[c].target # None => i <= bc[c].msg
  /\ \A i \in 1..Len(messages), j \in 1..Len(messages) :
       (i < j /\ messages[i].via = "ws" /\ messages[i].conn = messages[j].conn) =>
         messages[i].frame < messages[j].frame
  /\ \A c \in Conns : \A i \in 1..Len(outbox[c]), j \in 1..Len(outbox[c]) :
       (i < j /\ outbox[c][i].type = "message" /\ outbox[c][j].type = "message"
          /\ messages[outbox[c][i].id].conn = messages[outbox[c][j].id].conn) =>
         messages[outbox[c][i].id].frame < messages[outbox[c][j].id].frame

C10_Witness ==
  \E c \in Conns, d \in Conns :
    /\ c # d
    /\ Len(outbox[d]) = 2
    /\ outbox[d][1].type = "message" /\ outbox[d][2].type = "message"
    /\ messages[outbox[d][1].id].conn = c /\ messages[outbox[d][2].id].conn = c

\* C11: an accepted frame appends exactly one message with the frame's
\* content, the connection's room id and the user's id and nickname, and the
\* history of the room then contains it; when its broadcast returns, every
\* connection registered for the room whose peer is connected, the sender
\* included, has received exactly one "message" frame with the id, content,
\* room_id, user_id and user_name of that message.
C11_AcceptedFrameEndToEnd ==
  [][\A s \in Conns :
       /\ (pc[s] = "insert" /\ Steps(s) /\ pc'[s] # "crashed") =>
            /\ Len(messages') = Len(messages) + 1
            /\ SubSeq(messages', 1, Len(messages)) = messages
            /\ LET d == messages'[Len(messages')] IN
                 /\ d.content = local[s].content /\ d.content # None
                 /\ d.room_id = connRoom[s]
                 /\ d.user_id = local[s].token.sub
                 /\ d.user_name = users[d.user_id].nickname
                 /\ \A tie \in TieOrders :
                      LET list == MessageList(messages', d.room_id, tie) IN
                      \E k \in 1..Len(list) : list[k].id = d.id
       /\ Returns(s) =>
            \A c \in Conns :
              (c \in Range(ConnectionsFor(active_connections, connRoom[s]))
                 /\ alive[c]) =>
                /\ Copies(outbox'[c], bc[s].msg) = 1
                /\ \A i \in 1..Len(outbox'[c]) :
                     (outbox'[c][i].type = "message"
                        /\ outbox'[c][i].id = bc[s].msg) =>
                       outbox'[c][i] = BroadcastData(messages[bc[s].msg])]_vars

\* C12: a connection is in the list of at most one room id of
\* active_connections, and at most once in that list.
C12_OneRoomPerConnection ==
  \A c \in Conns :
    /\ Cardinality({r \in DOMAIN active_connections :
                      c \in Range(active_connections[r])}) <= 1
    /\ \A r \in DOMAIN active_connections :
         Cardinality({i \in 1..Len(active_connections[r]) :
                        active_connections[r][i] = c}) <= 1

C12_Witness ==
  /\ "r1" \in DOMAIN active_connections
  /\ Len(active_connections["r1"]) = 2
  /\ \E r \in DOMAIN active_connections :
       r # "r1" /\ Len(active_connections[r]) = 1
  /\ \E s \in Conns : pc[s] = AwaitBroadcast

\* C13: no room id of active_connections maps to an empty list, whatever
\* connect, disconnect and broadcast_to_room have done so far.
C13_NoEmptyEntries ==
  \A r \in DOMAIN active_connections : active_connections[r] # <<>>

C13_Witness ==
  \E c \in Conns, s \in Conns :
    /\ pc[c] = "closed" /\ connRoom[c] \notin DOMAIN active_connections
    /\ pc[s] = "closed" /\ connRoom[s] \in DOMAIN active_connections
    /\ \E b \in Conns : pc[b] = AwaitBroadcast

\* C14: a frame that is no parseable JSON text, or an object without
\* "content", does not end the session: the session goes on to send an error
\* frame on its connection, nothing is stored or broadcast for the frame and
\* the connection stays open and registered.
C14_MalformedFrameReported ==
  [][\A c \in Conns :
       /\ (pc[c] = "receive" /\ frameNo' # frameNo /\ Steps(c)) =>
            /\ pc'[c] \in {"send_error", "find_user"}
            /\ messages' = messages /\ alive' = alive
            /\ active_connections' = active_connections
       /\ (pc[c] = "find_room" /\ local[c].content = None) =>
            /\ AfterFindRoom(rooms, connRoom[c], local[c]).pc = "send_error"
            /\ Steps(c) => messages' = messages /\ bc' = bc]_vars

\* C15: when the user lookup, the room lookup or the append of a frame
\* raises, the session does not end: the connection stays registered and its
\* session goes on with the frame or awaits the next one.
C15_DependencyFailureSurvivable ==
  [][\A c \in Conns :
       (pc[c] \in {"find_user", "find_room", "insert"}
          /\ local[c].content # None /\ Steps(c)) =>
         /\ pc'[c] \in {"find_room", "insert", "send_error", "receive",
                        AwaitBroadcast}
         /\ c \in Range(ConnectionsFor(active_connections', connRoom[c]))]_vars

\* C16: send_message_http answers 404 for a missing room and 403 for a
\* private room whose members lack the caller, and then no message is
\* appended and no frame is sent; otherwise it appends exactly one message
\* with the request's content, the path's room id and the caller's id and
\* returns that message with status 200.
C16_HttpSendNoPartialEffects ==
  [][\A h \in Reqs :
       (http'[h] # http[h] /\ http'[h].op = "send") =>
         /\ http[h].pc = "find_room" =>
              /\ RoomMissing(rooms, http[h].room_id) =>
                   (http'[h].pc = "done" /\ http'[h].status = 404)
              /\ (/\ ~RoomMissing(rooms, http[h].room_id)
                  /\ rooms[http[h].room_id].is_private
                  /\ http[h].credentials.sub \notin Range(rooms[http[h].room_id].members)) =>
                   (http'[h].pc = "done" /\ http'[h].status = 403)
              /\ (/\ ~RoomMissing(rooms, http[h].room_id)
                  /\ \/ ~rooms[http[h].room_id].is_private
                     \/ http[h].credentials.sub \in Range(rooms[http[h].room_id].members)) =>
                   http'[h].pc = "insert"
         /\ http[h].pc # "insert" =>
              (messages' = messages /\ outbox' = outbox /\ bc' = bc)
         /\ http[h].pc = "insert" =>
              /\ Len(messages') = Len(messages) + 1
              /\ SubSeq(messages', 1, Len(messages)) = messages
              /\ outbox' = outbox /\ bc' = bc
              /\ LET d == messages'[Len(messages')] IN
                   /\ d.content = http[h].content
                   /\ d.room_id = http[h].room_id
                   /\ d.user_id = http[h].credentials.sub
                   /\ http'[h].pc = "done" /\ http'[h].status = 200
                   /\ http'[h].message =
                        Message(d.id, d.content, d.room_id, d.user_id,
                                d.user_name, d.user_avatar, d.created_at)]_vars

\* C17: no step of send_message_http sends a frame, starts a broadcast or
\* touches the registry, and every "message" frame a connection has received
\* is of a message created by websocket_endpoint: a message created by
\* send_message_http reaches a connection of its room through the room's
\* history only.
C17_HttpSendBypassesBroadcaster ==
  [][/\ (\E h \in Reqs : http'[h] # http[h] /\ http'[h].op = "send") =>
          (outbox' = outbox /\ bc' = bc /\ active_connections' = active_connections)
     /\ \A c \in Conns : \A i \in 1..Len(outbox'[c]) :
          outbox'[c][i].type = "message" =>
            messages'[outbox'[c][i].id].via = "ws"]_vars

C17_Witness ==
  \E c \in Conns, i \in 1..Len(messages), j \in 1..Len(messages) :
    /\ j < i
    /\ messages[j].via = "ws" /\ messages[j].conn = c /\ HasMsg(outbox[c], j)
    /\ messages[i].via = "http" /\ messages[i].room_id = connRoom[c]
    /\ pc[c] = "receive" /\ alive[c] /\ Registered(c)
    /\ ~HasMsg(outbox[c], i)
    /\ http["h1"].status = 200 /\ http["h1"].message.id = i
    /\ LET list == MessageList(messages, connRoom[c], tieOrder) IN
         \E k \in 1..Len(list) : list[k].id = i

\* C18: a message appended by send_message_http and one appended by
\* websocket_endpoint have the same fields (id, content, room_id, user_id,
\* user_name, user_avatar, created_at), user_name is a nickname and
\* user_avatar an avatar_url of the user's record, and user_name is neither
\* null nor empty in the stored message and in the response.
MessageFields ==
  {"id", "content", "room_id", "user_id", "user_name", "user_avatar", "created_at"}

NicknamesOf(u) ==
  {UsersWithLegacy[u].nickname}
  \cup {nickname_requests[i].new_nickname : i \in
          {k \in 1..Len(nickname_requests) :
             nickname_requests[k].user_id = u /\ nickname_requests[k].status = "approved"}}

AvatarsOf(u) == {UsersWithLegacy[u].avatar_url, users[u].avatar_url}

C18_IdenticalPersistenceShape ==
  /\ \A i \in 1..Len(messages) :
       /\ DOMAIN messages[i] \ {"via", "conn", "frame"} = MessageFields
       /\ messages[i].user_name \in NicknamesOf(messages[i].user_id)
       /\ messages[i].user_avatar \in AvatarsOf(messages[i].user_id)
       /\ messages[i].user_name \notin {None, ""}
  /\ \A h \in Reqs :
       (http[h].op = "send" /\ http[h].status = 200) =>
         /\ DOMAIN http[h].message = MessageFields
         /\ http[h].message.user_name \notin {None, ""}
         /\ http[h].message.user_name = messages[http[h].message.id].user_name

C20_MessageStoreAppendOnly ==
  [][/\ Len(messages') >= Len(messages)
     /\ \A i \in 1..Len(messages) : messages'[i] = messages[i]]_vars

C20_Witness ==
  \E i \in 1..Len(messages), j \in 1..Len(messages) :
    /\ messages[i].via = "ws" /\ messages[j].via = "http"
    /\ messages[i].user_id = messages[j].user_id
    /\ messages[i].user_name # users[messages[i].user_id].nickname
    /\ messages[j].user_name # users[messages[j].user_id].nickname
    /\ messages[i].user_avatar # users[messages[i].user_id].avatar_url
    /\ \E k \in 1..Len(nickname_requests) :
         /\ nickname_requests[k].user_id = messages[i].user_id
         /\ nickname_requests[k].status = "approved"

\* C21: every message in the room message store has a non-empty text
\* content, whichever handler created it: a send with empty content appends
\* nothing.
C21_ContentNonEmpty ==
  \A i \in 1..Len(messages) :
    messages[i].content # None /\ messages[i].content # ""

\* the step on which the request of slot t gets its response
Responds(t, op) == task[t].op = op /\ task[t].pc # "done" /\ task'[t].pc = "done"

\* C22: when send_friend_request by A for an existing user B succeeds, A's
\* friends list contains B and B's contains A; a request that finds the two
\* already friends, from either side, is answered 400, and a request for a
\* user id that does not exist is answered 404; a request answered 400 or
\* 404 inserts no record.
C22_FriendRequestBidirectional ==
  [][\A t \in Tasks :
       LET A == task[t].current_user
           B == task[t].friend_user_id
       IN /\ Responds(t, "send_friend_request") =>
               /\ task'[t].status = 200 =>
                    /\ ~UserMissing(users, B)
                    /\ B \in Range(GetFriends(friends', A, tieOrder))
                    /\ A \in Range(GetFriends(friends', B, tieOrder))
               /\ task'[t].status # 200 => friends' = friends
               /\ (task[t].pc = "find_user" /\ UserMissing(users, B)) =>
                    task'[t].status = 404
               /\ (/\ task[t].pc = "find_friendship"
                   /\ \/ B \in Range(GetFriends(friends, A, tieOrder))
                      \/ A \in Range(GetFriends(friends, B, tieOrder))) =>
                    task'[t].status = 400
          /\ (task[t].op = "send_friend_request" /\ friends' # friends
              /\ task'[t] # task[t]) =>
               task[t].pc \in {"insert", "insert_reverse"}]_vars

\* C23: when remove_friend(B) by A succeeds, neither A's friends list
\* contains B nor B's contains A, and no record of the two exists, so that a
\* new send_friend_request between them passes its check; every friendship
\* record of another pair is unchanged by each step of remove_friend; a
\* remove_friend that deletes nothing is answered 404.
C23_RemoveFriendBidirectional ==
  [][\A t \in Tasks :
       LET A == task[t].current_user
           B == task[t].friend_user_id
           Other(d) == ~(\/ d.user_id = A /\ d.friend_user_id = B
                         \/ d.user_id = B /\ d.friend_user_id = A)
       IN /\ Responds(t, "remove_friend") =>
               /\ task'[t].status \in {200, 404}
               /\ task'[t].status = 200 =>
                    /\ B \notin Range(GetFriends(friends', A, tieOrder))
                    /\ A \notin Range(GetFriends(friends', B, tieOrder))
                    /\ ~ExistingFriendship(friends', A, B)
               /\ task'[t].status = 404 =>
                    (friends' = friends /\ task[t].deleted_count = 0)
               /\ (task[t].deleted_count = 0 /\ friends' = friends) =>
                    task'[t].status = 404
          /\ (task[t].op = "remove_friend" /\ task'[t] # task[t]) =>
               SelectSeq(friends', Other) = SelectSeq(friends, Other)]_vars

\* C24: register with an email that already belongs to a stored user is
\* answered 400 and creates no user, and in every reachable state at most
\* one user record has a given email.
C24_NoDuplicateEmail ==
  \A u \in DOMAIN users, v \in DOMAIN users :
    u # v => users[u].email # users[v].email

\* C25: when a connection is sent a frame of type "message", a message with
\* the same id, content, room_id and user_id is already in the message
\* store; a broadcast starts only on the step that appends its message, and
\* a session whose append fails starts none.
C25_PersistBeforeBroadcast ==
  [][\A c \in Conns :
       /\ \A k \in (Len(outbox[c]) + 1)..Len(outbox'[c]) :
            outbox'[c][k].type = "message" =>
              \E i \in 1..Len(messages) :
                /\ messages[i].id = outbox'[c][k].id
                /\ messages[i].content = outbox'[c][k].content
                /\ messages[i].room_id = outbox'[c][k].room_id
                /\ messages[i].user_id = outbox'[c][k].user_id
       /\ (bc[c].target = None /\ bc'[c].target # None) =>
            /\ pc[c] = "insert"
            /\ Len(messages') = Len(messages) + 1
            /\ messages'[Len(messages')].id = bc'[c].data.id
            /\ messages'[Len(messages')].id = bc'[c].msg
       /\ (pc[c] = "insert" /\ Steps(c) /\ messages' = messages) =>
            (bc'[c] = NoBc /\ outbox' = outbox /\ pc'[c] = "crashed")]_vars

C25_Witness ==
  \E c \in Conns, s \in Conns :
    /\ c # s /\ pc[s] = "crashed" /\ Registered(s)
    /\ Len(messages) = 1 /\ frameNo = 2
    /\ HasMsg(outbox[c], 1) /\ HasMsg(outbox[s], 1)
    /\ messages[1].conn = c

\* C26: no step of broadcast_to_room changes active_connections, whatever
\* the outcome of its sends: the registry changes only when a session
\* registers or unregisters its own socket; a connection for which a send
\* failed stays registered until its own session runs disconnect, and every
\* later broadcast for its room that it is registered throughout awaits a
\* send to it.
C26_BroadcastKeepsRegistry ==
  [][/\ \A s \in Conns :
          (/\ pc[s] \in {"insert", AwaitBroadcast}
           /\ bc'[s] # bc[s]
           /\ (bc'[s].idx # bc[s].idx \/ bc'[s].target # bc[s].target)) =>
            active_connections' = active_connections
     /\ active_connections' # active_connections =>
          \E c \in Conns :
            /\ Steps(c) /\ (pc[c] = "idle" \/ pc'[c] = "closed")
            /\ \A x \in Conns \ {c} : Registered(x)' = Registered(x)
     /\ \A c \in send_failed :
          (Registered(c) /\ ~Registered(c)') => (pc[c] # "closed" /\ pc'[c] = "closed")
     /\ \A s \in Conns :
          Returns(s) =>
            \A c \in bc[s].stable \cap bc[s].failedBefore :
              c \in bc[s].tried \cup {bc[s].target}]_vars

\* C27: response and persistence of send_message_http agree for every caller
\* record, a caller without nickname included: the request returns the
\* created Message with status 200 exactly when it has appended one message,
\* and returns an error only when it has appended none.
C27_HttpSendResponseAgrees ==
  [][\A h \in Reqs :
       (http'[h] # http[h] /\ http'[h].op = "send") =>
         /\ http'[h].pc # "done" => messages' = messages
         /\ http'[h].pc = "done" =>
              \/ /\ http'[h].status = 200
                 /\ Len(messages') = Len(messages) + 1
                 /\ SubSeq(messages', 1, Len(messages)) = messages
                 /\ http'[h].message.id = messages'[Len(messages')].id
                 /\ http'[h].message.content = messages'[Len(messages')].content
                 /\ http'[h].message.user_name = messages'[Len(messages')].user_name
              \/ /\ http'[h].status # 200
                 /\ http'[h].message = NoMessage
                 /\ messages' = messages]_vars

\* a join_room of user u for room r has been answered 200
Joined(u, r) ==
  \E t \in Tasks : /\ task[t].op = "join_room" /\ task[t].pc = "done"
                   /\ task[t].status = 200
                   /\ task[t].current_user = u /\ task[t].room_id = r

\* C28: no step removes a room or a user from a member set, and the creator
\* of a room is in its member set in every state; join_room answers 404 for
\* a missing room and changes nothing, and otherwise puts the caller in the
\* member set of the room, private or not, where no user is listed twice;
\* after join_room the user passes the private-room check of
\* get_room_messages, send_message_http and websocket_endpoint.
C28_MembershipMonotone ==
  [][/\ \A r \in DOMAIN rooms :
          /\ r \in DOMAIN rooms'
          /\ Range(rooms[r].members) \subseteq Range(rooms'[r].members)
     /\ \A r \in DOMAIN rooms' :
          /\ rooms'[r].created_by \in Range(rooms'[r].members)
          /\ Cardinality(Range(rooms'[r].members)) = Len(rooms'[r].members)
     /\ \A t \in Tasks :
          Responds(t, "join_room") =>
            /\ (task[t].pc = "find_room" /\ RoomMissing(rooms, task[t].room_id)) =>
                 task'[t].status = 404
            /\ task'[t].status = 404 =>
                 (RoomMissing(rooms', task[t].room_id) /\ rooms' = rooms)
            /\ task'[t].status # 404 =>
                 /\ task'[t].status = 200
                 /\ task[t].current_user \in Range(rooms'[task[t].room_id].members)
                 /\ rooms'[task[t].room_id].is_private =
                      rooms[task[t].room_id].is_private
     /\ \A h \in Reqs :
          (/\ http[h].pc = "find_room" /\ http'[h] # http[h]
           /\ Joined(http[h].credentials.sub, http[h].room_id)) =>
            http'[h].pc \in {"insert", "find_messages"}
     /\ \A c \in Conns :
          (/\ pc[c] = "find_room" /\ Steps(c)
           /\ Joined(local[c].user_id, connRoom[c])) =>
            pc'[c] = "insert"]_vars

C28_Witness ==
  /\ rooms["r2"].is_private
  /\ Joined("u2", "r2")
  /\ \E t \in Tasks : task[t].op = "join_room" /\ task[t].status = 404
  /\ http["h1"].status = 200 /\ http["h1"].room_id = "r2"
  /\ http["h1"].credentials.sub = "u2"
  /\ \E i \in 1..Len(messages) :
       /\ messages[i].via = "ws" /\ messages[i].room_id = "r2"
       /\ messages[i].user_id = "u2"
  /\ \E k \in 1..Len(outbox["w3"]) : outbox["w3"][k].error = "Access denied"

\* C29: in every state where no friend request and no removal is in
\* progress, a record (A, B) is in the friends store exactly when a record
\* (B, A) is, and there is at most one record per ordered pair.
C29_FriendshipsSymmetricUnique ==
  (\A t \in Tasks : task[t].pc \in {"idle", "done"}) =>
    \A a \in FriendIds, b \in FriendIds :
      /\ ExistingOneWay(friends, a, b) <=> ExistingOneWay(friends, b, a)
      /\ Cardinality(FriendMatch(friends, a, b)) <= 1

\* the private messages from x to u that no get_private_messages of u has
\* returned
NotReturned(x, u) ==
  {i \in 1..Len(private_messages) :
     /\ private_messages[i].sender_id = x /\ private_messages[i].recipient_id = u
     /\ ~private_messages[i].returned}

\* C30: a private message from X to U has is_read true only if a
\* get_private_messages(X) call by U had it in the list it returns; and when
\* no request is in progress, the unread_count of U's friendship with X is
\* not below the number of messages from X that no fetch of U has returned.
C30_ReadMarkingExact ==
  /\ \A i \in 1..Len(private_messages) :
       private_messages[i].is_read => private_messages[i].returned
  /\ (\A t \in Tasks : task[t].pc \in {"idle", "done"}) =>
       \A k \in 1..Len(friends) :
         friends[k].unread_count >=
           Cardinality(NotReturned(friends[k].friend_user_id, friends[k].user_id))

====
